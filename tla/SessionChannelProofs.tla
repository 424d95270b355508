------------------------ MODULE SessionChannelProofs ------------------------
(***************************************************************************)
(* Proofs about SessionChannel, for any number of requests and amounts.    *)
(*                                                                         *)
(* Lemmas about the record updates come first, so that a step of the proof *)
(* never expands a record.  Every action then changes the escrow, one      *)
(* request's job, or the store: the invariant is proved cluster by cluster.*)
(***************************************************************************)
EXTENDS SessionChannel, TLAPS

Inv ==
  /\ TypeOK
  /\ JobsWithinChain
  /\ VoucherBacked
  /\ StoreBehindChain
  /\ OneCloserAtATime
  /\ LockHeldWhileSettling
  /\ ChargesCovered

-----------------------------------------------------------------------------
(* The record updates.                                                     *)

\* The larger of two amounts is one of them and at least as large as both.
LEMMA LargerFacts ==
  ASSUME NEW a \in Amounts, NEW b \in Amounts
  PROVE  /\ Larger(a, b) \in Amounts
         /\ Larger(a, b) >= a
         /\ Larger(a, b) >= b
         /\ Larger(a, b) \in {a, b}
BY AmountAssumption DEF Larger, Amounts

\* A refresh copies the deposit, raises settled and spent, and leaves the
\* voucher, the lock and the finalized flag alone.
LEMMA RefreshedFacts ==
  ASSUME NEW c \in ChannelState, NEW e \in OnChainChannel
  PROVE  LET n == Refreshed(c, e) IN
         /\ n \in ChannelState
         /\ n.deposit = e.deposit
         /\ n.settled_on_chain = Larger(e.settled, c.settled_on_chain)
         /\ n.spent = Larger(n.settled_on_chain, c.spent)
         /\ n.highest_voucher_amount = c.highest_voucher_amount
         /\ n.highest_voucher_signature = c.highest_voucher_signature
         /\ n.finalized = c.finalized
         /\ n.closing = c.closing
<1>1. /\ e.settled \in Amounts /\ e.deposit \in Amounts
      /\ e.close_requested \in BOOLEAN
      /\ c.settled_on_chain \in Amounts /\ c.spent \in Amounts
  BY DEF ChannelState, OnChainChannel
<1> DEFINE s == Larger(e.settled, c.settled_on_chain)
<1>2. s \in Amounts
  BY <1>1, LargerFacts
<1>3. Larger(s, c.spent) \in Amounts
  BY <1>1, <1>2, LargerFacts
<1> HIDE DEF s
<1>4. LET n == [c EXCEPT !.deposit = e.deposit, !.settled_on_chain = s,
                         !.spent = Larger(s, c.spent),
                         !.close_requested = e.close_requested] IN
         /\ n \in ChannelState
         /\ n.deposit = e.deposit
         /\ n.settled_on_chain = s
         /\ n.spent = Larger(s, c.spent)
         /\ n.highest_voucher_amount = c.highest_voucher_amount
         /\ n.highest_voucher_signature = c.highest_voucher_signature
         /\ n.finalized = c.finalized
         /\ n.closing = c.closing
  BY <1>1, <1>2, <1>3 DEF ChannelState
<1> QED
  BY <1>4 DEF Refreshed, s

\* The refresh of the voucher handler differs in the finalized flag only.
LEMMA VoucherRefreshedFacts ==
  ASSUME NEW c \in ChannelState, NEW e \in OnChainChannel
  PROVE  LET n == VoucherRefreshed(c, e) IN
         /\ n \in ChannelState
         /\ n.deposit = e.deposit
         /\ n.settled_on_chain = Larger(e.settled, c.settled_on_chain)
         /\ n.spent = Larger(n.settled_on_chain, c.spent)
         /\ n.highest_voucher_amount = c.highest_voucher_amount
         /\ n.highest_voucher_signature = c.highest_voucher_signature
         /\ n.closing = c.closing
<1> DEFINE n == Refreshed(c, e)
<1>1. /\ n \in ChannelState
      /\ n.deposit = e.deposit
      /\ n.settled_on_chain = Larger(e.settled, c.settled_on_chain)
      /\ n.spent = Larger(n.settled_on_chain, c.spent)
      /\ n.highest_voucher_amount = c.highest_voucher_amount
      /\ n.highest_voucher_signature = c.highest_voucher_signature
      /\ n.closing = c.closing
  BY RefreshedFacts
<1>2. e.finalized \in BOOLEAN
  BY DEF OnChainChannel
<1>3. VoucherRefreshed(c, e) = [n EXCEPT !.finalized = e.finalized]
  BY DEF VoucherRefreshed
<1> HIDE DEF n
<1> QED
  BY <1>1, <1>2, <1>3 DEF ChannelState

\* Raising takes the job's voucher exactly when it is higher.
LEMMA RaisedFacts ==
  ASSUME NEW c \in ChannelState, NEW j \in Job
  PROVE  LET n == Raised(c, j) IN
         /\ n \in ChannelState
         /\ n.deposit = c.deposit
         /\ n.settled_on_chain = c.settled_on_chain
         /\ n.spent = c.spent
         /\ n.highest_voucher_amount >= c.highest_voucher_amount
         /\ \/ /\ n.highest_voucher_amount = j.cum
               /\ n.highest_voucher_signature = j.signer
            \/ /\ n.highest_voucher_amount = c.highest_voucher_amount
               /\ n.highest_voucher_signature = c.highest_voucher_signature
         /\ n.finalized = c.finalized
         /\ n.closing = c.closing
<1>1. /\ c.highest_voucher_amount \in Amounts
      /\ j.cum \in Amounts /\ j.signer \in Signers
  BY DEF ChannelState, Job
<1>2. CASE j.cum > c.highest_voucher_amount
  <2>1. Raised(c, j) = [c EXCEPT !.highest_voucher_amount = j.cum,
                                 !.highest_voucher_signature = j.signer]
    BY <1>2 DEF Raised
  <2>2. j.cum >= c.highest_voucher_amount
    BY <1>1, <1>2, AmountAssumption DEF Amounts
  <2> QED
    BY <1>1, <2>1, <2>2 DEF ChannelState
<1>3. CASE ~(j.cum > c.highest_voucher_amount)
  <2>1. Raised(c, j) = c
    BY <1>3 DEF Raised
  <2>2. c.highest_voucher_amount >= c.highest_voucher_amount
    BY <1>1, AmountAssumption DEF Amounts
  <2> QED
    BY <2>1, <2>2
<1> QED
  BY <1>2, <1>3

\* The record of a new channel starts from what is settled on chain.
LEMMA NewChannelFacts ==
  ASSUME NEW j \in Job
  PROVE  LET n == NewChannel(j) IN
         /\ n \in ChannelState
         /\ n.deposit = j.on_chain.deposit
         /\ n.settled_on_chain = j.on_chain.settled
         /\ n.spent = j.on_chain.settled
         /\ n.highest_voucher_amount = j.cum
         /\ n.highest_voucher_signature = j.signer
         /\ n.closing = FALSE
BY DEF NewChannel, Job, ChannelState, OnChainChannel

\* Finalizing raises the voucher, copies the deposit and releases the lock.
LEMMA FinalizedFacts ==
  ASSUME NEW c \in ChannelState, NEW j \in Job
  PROVE  LET n == Finalized(c, j) IN
         /\ n \in ChannelState
         /\ n.deposit = j.on_chain.deposit
         /\ n.settled_on_chain = c.settled_on_chain
         /\ n.spent = c.spent
         /\ n.highest_voucher_amount = Raised(c, j).highest_voucher_amount
         /\ n.highest_voucher_signature = Raised(c, j).highest_voucher_signature
<1> DEFINE n == Raised(c, j)
<1>1. n \in ChannelState /\ n.settled_on_chain = c.settled_on_chain
      /\ n.spent = c.spent
  BY RaisedFacts
<1>2. j.on_chain.deposit \in Amounts
  BY DEF Job, OnChainChannel
<1>3. Finalized(c, j) = [n EXCEPT !.deposit = j.on_chain.deposit,
                                  !.finalized = TRUE, !.closing = FALSE]
  BY DEF Finalized
<1> HIDE DEF n
<1>4. /\ Finalized(c, j) \in ChannelState
      /\ Finalized(c, j).deposit = j.on_chain.deposit
      /\ Finalized(c, j).settled_on_chain = n.settled_on_chain
      /\ Finalized(c, j).spent = n.spent
      /\ Finalized(c, j).highest_voucher_amount = n.highest_voucher_amount
      /\ Finalized(c, j).highest_voucher_signature = n.highest_voucher_signature
  BY <1>1, <1>2, <1>3 DEF ChannelState
<1> QED
  BY <1>1, <1>4 DEF n

-----------------------------------------------------------------------------
(* The escrow.                                                             *)

EscrowGrows ==
  /\ escrow' \in OnChainChannel
  /\ escrow'.deposit >= escrow.deposit
  /\ escrow'.settled >= escrow.settled

\* Whatever the contract does with a transaction, deposits and settlements
\* only grow.
LEMMA EscrowUpdateFacts ==
  ASSUME NEW e \in OnChainChannel, NEW a \in Amounts,
         NEW f \in {Opened(e, a), Closed(e, a)} \cup ToppedUp(e, a) \cup {e}
  PROVE  /\ f \in OnChainChannel
         /\ f.deposit >= e.deposit
         /\ f.settled >= e.settled
<1>0. /\ e.deposit \in Amounts /\ e.settled \in Amounts
      /\ e.deposit >= e.deposit /\ e.settled >= e.settled
  BY AmountAssumption DEF OnChainChannel, Amounts
<1>1. CASE f = Opened(e, a)
  BY <1>1, AmountAssumption DEF Opened, OnChainChannel, Amounts
<1>2. CASE f = Closed(e, a)
  <2>1. Larger(e.settled, a) \in Amounts /\ Larger(e.settled, a) >= e.settled
    BY <1>0, LargerFacts
  <2>2. CASE f = e
    BY <1>0, <2>2
  <2>3. CASE f = [e EXCEPT !.settled = Larger(e.settled, a), !.finalized = TRUE]
    BY <1>0, <2>1, <2>3 DEF OnChainChannel
  <2> QED
    BY <1>2, <2>2, <2>3 DEF Closed
<1>3. CASE f \in ToppedUp(e, a)
  <2>1. CASE f = e
    BY <1>0, <2>1
  <2>2. CASE /\ e.deposit + a <= MaxAmount
             /\ \E c \in {FALSE, e.close_requested} :
                  f = [e EXCEPT !.deposit = e.deposit + a, !.close_requested = c]
    <3>1. PICK c \in {FALSE, e.close_requested} :
            f = [e EXCEPT !.deposit = e.deposit + a, !.close_requested = c]
      BY <2>2
    <3>2. c \in BOOLEAN
      BY DEF OnChainChannel
    <3>3. e.deposit + a \in Amounts /\ e.deposit + a >= e.deposit
      BY <1>0, <2>2, AmountAssumption DEF Amounts
    <3> QED
      BY <1>0, <3>1, <3>2, <3>3 DEF OnChainChannel
  <2> QED
    BY <1>3, <2>1, <2>2 DEF ToppedUp
<1>4. CASE f = e
  BY <1>0, <1>4
<1> QED
  BY <1>1, <1>2, <1>3, <1>4

-----------------------------------------------------------------------------
(* What every step is shown to do.                                         *)

StoreWithinChain(c, e) ==
  /\ c.highest_voucher_signature = "payer"
  /\ c.highest_voucher_amount <= e.deposit
  /\ c.deposit <= e.deposit
  /\ c.settled_on_chain <= e.settled
  /\ c.settled_on_chain <= c.spent

Grows(c, d) ==
  /\ d.highest_voucher_amount >= c.highest_voucher_amount
  /\ d.spent >= c.spent
  /\ d.settled_on_chain >= c.settled_on_chain

AccountingStep == StoreKnows /\ store' # NoChannel => Grows(store, store')

MeteredVars ==
  <<escrow.deposit,
    IF StoreKnows THEN store.highest_voucher_amount ELSE 0,
    charged>>

MeteredStep == Metered!Next \/ UNCHANGED MeteredVars

GoodStep == Inv' /\ AccountingStep /\ MeteredStep

Moves(r, phase, j) ==
  /\ pc' = [pc EXCEPT ![r] = phase]
  /\ job' = [job EXCEPT ![r] = j]

\* The part of the invariant that is about jobs survives when one request goes
\* on with a job that is itself within the chain.
LEMMA JobMoves ==
  ASSUME TypeOK, JobsWithinChain, EscrowGrows,
         NEW r \in Requests, NEW phase \in Resting \cup Phases, NEW j \in Job,
         Moves(r, phase, j), JobWithinChain(phase, j, escrow')
  PROVE  /\ pc' \in [Requests -> Resting \cup Phases]
         /\ job' \in [Requests -> Job]
         /\ JobsWithinChain'
<1>1. /\ pc' \in [Requests -> Resting \cup Phases]
      /\ job' \in [Requests -> Job]
  BY DEF TypeOK, Moves
<1>2. ASSUME NEW q \in Requests
      PROVE  JobWithinChain(pc'[q], job'[q], escrow')
  <2>1. CASE q = r
    BY <2>1 DEF Moves, TypeOK
  <2>2. CASE q # r
    <3>1. pc'[q] = pc[q] /\ job'[q] = job[q]
      BY <2>2 DEF Moves, TypeOK
    <3>2. JobWithinChain(pc[q], job[q], escrow)
      BY DEF JobsWithinChain
    <3>3. /\ job[q] \in Job /\ job[q].on_chain \in OnChainChannel
          /\ job[q].cum \in Amounts
          /\ job[q].on_chain.deposit \in Amounts
          /\ job[q].on_chain.settled \in Amounts
      BY DEF TypeOK, Job, OnChainChannel
    <3>4. /\ escrow.deposit \in Amounts /\ escrow'.deposit \in Amounts
          /\ escrow.settled \in Amounts /\ escrow'.settled \in Amounts
      BY DEF TypeOK, EscrowGrows, OnChainChannel
    <3> QED
      BY <3>1, <3>2, <3>3, <3>4, AmountAssumption
      DEF JobWithinChain, EscrowGrows, Amounts
  <2> QED
    BY <2>1, <2>2
<1> QED
  BY <1>1, <1>2 DEF JobsWithinChain

\* An empty job asks nothing of the chain.
LEMMA NoJobFacts ==
  ASSUME NEW e \in OnChainChannel, NEW phase \in Resting
  PROVE  NoJob \in Job /\ JobWithinChain(phase, NoJob, e)
BY AmountAssumption, ConfigAssumption
DEF NoJob, Unfunded, Job, OnChainChannel, Amounts, JobWithinChain, Resting, Checked

\* The lock survives a move that keeps `closing' and does not enter settlement.
LEMMA LocksKept ==
  ASSUME TypeOK, OneCloserAtATime, LockHeldWhileSettling,
         NEW r \in Requests, NEW phase \in Resting \cup Phases,
         pc' = [pc EXCEPT ![r] = phase],
         phase \in Settling => pc[r] \in Settling,
         StoreKnows => store' # NoChannel /\ store'.closing = store.closing
  PROVE  OneCloserAtATime' /\ LockHeldWhileSettling'
<1>1. ASSUME NEW q \in Requests, pc'[q] \in Settling
      PROVE  pc[q] \in Settling
  BY <1>1 DEF TypeOK
<1> QED
  BY <1>1 DEF OneCloserAtATime, LockHeldWhileSettling, StoreKnows

\* A record that was within the chain stays within it while the chain grows.
LEMMA StoreStaysWithin ==
  ASSUME NEW c \in ChannelState, NEW e \in OnChainChannel, NEW f \in OnChainChannel,
         StoreWithinChain(c, e), f.deposit >= e.deposit, f.settled >= e.settled
  PROVE  StoreWithinChain(c, f) /\ Grows(c, c)
BY AmountAssumption
DEF StoreWithinChain, Grows, ChannelState, OnChainChannel, Amounts

\* The two invariants about the store, in terms of its record.
LEMMA StoreInvariants ==
  VoucherBacked /\ StoreBehindChain <=> (StoreKnows => StoreWithinChain(store, escrow))
BY DEF VoucherBacked, StoreBehindChain, StoreWithinChain

\* A step of one request that leaves the store and the charges alone.
LEMMA QuietStep ==
  ASSUME Inv, EscrowGrows, UNCHANGED <<store, charged>>,
         NEW r \in Requests, NEW phase \in Resting \cup Phases, NEW j \in Job,
         Moves(r, phase, j), JobWithinChain(phase, j, escrow'),
         phase \in Settling => pc[r] \in Settling
  PROVE  GoodStep
<1>1. /\ pc' \in [Requests -> Resting \cup Phases]
      /\ job' \in [Requests -> Job]
      /\ JobsWithinChain'
  BY JobMoves DEF Inv
<1>2. OneCloserAtATime' /\ LockHeldWhileSettling'
  <2>1. StoreKnows => store' # NoChannel /\ store'.closing = store.closing
    BY DEF StoreKnows
  <2> QED
    BY <2>1, LocksKept DEF Inv, Moves
<1>3. TypeOK'
  BY <1>1 DEF Inv, TypeOK, EscrowGrows
<1>4. StoreKnows => StoreWithinChain(store, escrow') /\ Grows(store, store)
  <2> SUFFICES ASSUME StoreKnows
               PROVE  StoreWithinChain(store, escrow') /\ Grows(store, store)
    OBVIOUS
  <2>1. store \in ChannelState /\ StoreWithinChain(store, escrow)
    BY StoreInvariants DEF Inv, TypeOK, StoreKnows
  <2> QED
    BY <2>1, StoreStaysWithin DEF Inv, TypeOK, EscrowGrows
<1>5. VoucherBacked' /\ StoreBehindChain'
  BY <1>4 DEF VoucherBacked, StoreBehindChain, StoreWithinChain, StoreKnows
<1>6. ChargesCovered'
  BY DEF Inv, ChargesCovered, StoreKnows
<1>7. AccountingStep
  BY <1>4 DEF AccountingStep
<1>8. MeteredStep
  <2>1. CASE escrow'.deposit = escrow.deposit
    BY <2>1 DEF MeteredStep, MeteredVars, StoreKnows
  <2>2. CASE escrow'.deposit # escrow.deposit
    <3>1. escrow'.deposit \in Nat /\ escrow'.deposit > escrow.deposit
      BY <2>2, AmountAssumption
      DEF Inv, TypeOK, EscrowGrows, OnChainChannel, Amounts
    <3> QED
      BY <3>1 DEF MeteredStep, Metered!Next, Metered!Fund, StoreKnows
  <2> QED
    BY <2>1, <2>2
<1> QED
  BY <1>2, <1>1, <1>3, <1>5, <1>6, <1>7, <1>8 DEF GoodStep, Inv

\* A step of one request that writes the store: the new record is within the
\* chain and loses nothing.  What it does to the lock is left to the caller.
LEMMA UpdateStep ==
  ASSUME Inv, UNCHANGED <<escrow, charged>>,
         NEW r \in Requests, NEW phase \in Resting \cup Phases, NEW j \in Job,
         Moves(r, phase, j), JobWithinChain(phase, j, escrow),
         NEW c \in ChannelState, store' = c, StoreWithinChain(c, escrow),
         StoreKnows => Grows(store, c),
         OneCloserAtATime', LockHeldWhileSettling'
  PROVE  GoodStep
<1>0. EscrowGrows
  BY AmountAssumption DEF EscrowGrows, Inv, TypeOK, OnChainChannel, Amounts
<1>1. /\ pc' \in [Requests -> Resting \cup Phases]
      /\ job' \in [Requests -> Job]
      /\ JobsWithinChain'
  BY <1>0, JobMoves DEF Inv
<1>2. store' # NoChannel
  BY StoreAssumption
<1>3. TypeOK'
  BY <1>1 DEF Inv, TypeOK
<1>4. VoucherBacked' /\ StoreBehindChain'
  BY DEF VoucherBacked, StoreBehindChain, StoreWithinChain
<1>5. AccountingStep
  BY DEF AccountingStep
<1>6. ChargesCovered'
  <2> SUFFICES ASSUME charged > 0
               PROVE  charged <= c.spent /\ charged <= c.highest_voucher_amount
    BY <1>2 DEF ChargesCovered, StoreKnows
  <2>1. /\ StoreKnows /\ charged <= store.spent
        /\ charged <= store.highest_voucher_amount
    BY DEF Inv, ChargesCovered
  <2>2. store \in ChannelState /\ charged \in Nat
    BY <2>1 DEF Inv, TypeOK, StoreKnows
  <2> QED
    BY <2>1, <2>2, AmountAssumption DEF Grows, ChannelState, Amounts
<1>7. MeteredStep
  <2> DEFINE old == IF StoreKnows THEN store.highest_voucher_amount ELSE 0
             new == c.highest_voucher_amount
  <2>1. /\ old \in Nat /\ new \in Nat /\ new >= old
        /\ new <= escrow.deposit /\ escrow.deposit \in Nat
    <3>1. escrow.deposit \in Nat /\ new \in Nat
      BY AmountAssumption DEF Inv, TypeOK, OnChainChannel, ChannelState, Amounts
    <3>2. CASE StoreKnows
      <4>1. store.highest_voucher_amount \in Nat
        BY <3>2, AmountAssumption DEF Inv, TypeOK, StoreKnows, ChannelState, Amounts
      <4> QED
        BY <3>1, <3>2, <4>1 DEF Grows, StoreWithinChain
    <3>3. CASE ~StoreKnows
      BY <3>1, <3>3 DEF StoreWithinChain
    <3> QED
      BY <3>2, <3>3
  <2>2. (IF store' # NoChannel THEN store'.highest_voucher_amount ELSE 0) = new
    BY <1>2
  <2> HIDE DEF old, new
  <2>3. CASE new = old
    BY <2>2, <2>3 DEF MeteredStep, MeteredVars, StoreKnows, old
  <2>4. CASE new # old
    <3>1. new > old
      BY <2>1, <2>4
    <3> QED
      BY <2>1, <2>2, <3>1
      DEF MeteredStep, Metered!Next, Metered!Authorise, StoreKnows, old
  <2> QED
    BY <2>3, <2>4
<1> QED
  BY <1>1, <1>3, <1>4, <1>5, <1>6, <1>7 DEF GoodStep, Inv

-----------------------------------------------------------------------------
(* The handlers' steps.                                                    *)

\* What a handler that is past its checks carries.
LEMMA JobFacts ==
  ASSUME Inv, NEW r \in Requests
  PROVE  /\ job[r] \in Job
         /\ job[r].on_chain \in OnChainChannel
         /\ job[r].cum \in Amounts /\ job[r].signer \in Signers
         /\ job[r].funding \in Amounts /\ job[r].seen \in Amounts
         /\ JobWithinChain(pc[r], job[r], escrow)
BY DEF Inv, TypeOK, Job, JobsWithinChain

\* The escrow as it is grows trivially.
LEMMA EscrowStays ==
  ASSUME Inv, UNCHANGED escrow
  PROVE  EscrowGrows
BY AmountAssumption DEF EscrowGrows, Inv, TypeOK, OnChainChannel, Amounts

\* Any request may end, whatever the chain has done to it.
LEMMA EndStep ==
  ASSUME Inv, EscrowGrows, UNCHANGED <<store, charged>>,
         NEW r \in Requests, Fail(r)
  PROVE  GoodStep
<1>1. NoJob \in Job /\ JobWithinChain("idle", NoJob, escrow')
  BY NoJobFacts DEF EscrowGrows, Resting
<1>2. Moves(r, "idle", NoJob)
  BY DEF Fail, Proceed, Moves
<1> QED
  BY <1>1, <1>2, QuietStep DEF Resting, Settling

\* A fresh job asks nothing of the chain until its voucher has been checked.
LEMMA FreshJob ==
  ASSUME NEW e \in OnChainChannel, NEW j \in Job, NEW phase \in Phases \ Checked,
         j.on_chain = Unfunded
  PROVE  JobWithinChain(phase, j, e)
BY AmountAssumption DEF JobWithinChain, Unfunded, OnChainChannel, Amounts

\* A request that starts has changed nothing yet.
LEMMA StartStep ==
  ASSUME Inv, NEW r \in Requests, Start(r)
  PROVE  GoodStep
<1>0. EscrowGrows /\ escrow' = escrow /\ escrow \in OnChainChannel
      /\ UNCHANGED <<store, charged>>
  BY EscrowStays
  DEF Start, OpenStart, TopUpStart, VoucherStart, CloseStart, Inv, TypeOK
<1>1. \E phase \in Phases \ (Checked \cup Settling), j \in Job :
         j.on_chain = Unfunded /\ Moves(r, phase, j)
  <2>0. NoJob \in Job /\ NoJob.on_chain = Unfunded
        /\ DOMAIN NoJob = {"cum", "signer", "funding", "seen", "on_chain"}
    BY <1>0, NoJobFacts DEF NoJob, Resting
  <2> USE DEF Take, Moves, Phases, Checked, Settling, Job, NoJob
  <2>1. CASE OpenStart(r)
    BY <2>0, <2>1 DEF OpenStart
  <2>2. CASE TopUpStart(r)
    <3>1. store.deposit \in Amounts
      BY <2>2 DEF TopUpStart, StoreKnows, Inv, TypeOK, ChannelState
    <3> QED
      BY <2>0, <2>2, <3>1 DEF TopUpStart
  <2>3. CASE VoucherStart(r)
    BY <2>0, <2>3 DEF VoucherStart
  <2>4. CASE CloseStart(r)
    <3>1. store.spent \in Amounts
      BY <2>4 DEF CloseStart, StoreKnows, Inv, TypeOK, ChannelState
    <3> QED
      BY <2>0, <2>4, <3>1 DEF CloseStart
  <2> QED
    BY <2>1, <2>2, <2>3, <2>4 DEF Start
<1>2. PICK phase \in Phases \ (Checked \cup Settling), j \in Job :
         j.on_chain = Unfunded /\ Moves(r, phase, j)
  BY <1>1
<1>3. JobWithinChain(phase, j, escrow')
  BY <1>0, <1>2, FreshJob
<1> QED
  BY <1>0, <1>2, <1>3, QuietStep

\* A broadcast changes the escrow and nothing the handler relies on.
LEMMA BroadcastStep ==
  ASSUME Inv, NEW r \in Requests, OpenBroadcast(r) \/ TopUpBroadcast(r)
  PROVE  GoodStep
<1>1. JobWithinChain(pc[r], job[r], escrow) /\ job[r] \in Job
      /\ job[r].funding \in Amounts /\ escrow \in OnChainChannel
  BY JobFacts DEF Inv, TypeOK
<1>2. UNCHANGED <<store, charged>>
  BY DEF OpenBroadcast, TopUpBroadcast
<1>3. EscrowGrows
  <2>1. escrow' \in {Opened(escrow, job[r].funding)}
                      \cup ToppedUp(escrow, job[r].funding) \cup {escrow}
    BY DEF OpenBroadcast, TopUpBroadcast
  <2> QED
    BY <1>1, <2>1, EscrowUpdateFacts DEF EscrowGrows
<1>4. CASE Fail(r)
  BY <1>2, <1>3, <1>4, EndStep
<1>5. CASE ~Fail(r)
  <2> DEFINE j == [job[r] EXCEPT !.funding = 0]
  <2>1. PICK phase \in {"open_read", "topup_read"} : Moves(r, phase, j)
    BY <1>5 DEF OpenBroadcast, TopUpBroadcast, Proceed, Moves
  <2>2. j \in Job /\ j.on_chain = job[r].on_chain
    BY <1>1, AmountAssumption DEF Job, Amounts
  <2> HIDE DEF j
  <2>3. JobWithinChain(phase, j, escrow')
    <3>1. /\ j.on_chain \in OnChainChannel
          /\ j.on_chain.deposit \in Amounts /\ j.on_chain.settled \in Amounts
          /\ escrow.deposit \in Amounts /\ escrow'.deposit \in Amounts
          /\ escrow.settled \in Amounts /\ escrow'.settled \in Amounts
      BY <1>1, <1>3, <2>2 DEF Job, OnChainChannel, EscrowGrows
    <3> QED
      BY <1>1, <1>3, <2>2, <3>1, AmountAssumption
      DEF JobWithinChain, EscrowGrows, Amounts, Checked
  <2> QED
    BY <1>2, <1>3, <2>1, <2>2, <2>3, QuietStep DEF Phases, Settling
<1> QED
  BY <1>4, <1>5

\* A job that carries the channel just read is within the chain: its voucher,
\* where the phase needs it, was checked against that very reading.
LEMMA ReadStep ==
  ASSUME Inv, NEW r \in Requests,
         OpenRead(r) \/ TopUpRead(r) \/ VoucherRead(r) \/ CloseRead(r)
  PROVE  GoodStep
<1>1. job[r] \in Job /\ escrow \in OnChainChannel /\ NoJob \in Job
  BY JobFacts, NoJobFacts DEF Inv, TypeOK, Resting
<1>2. UNCHANGED <<store, charged>> /\ escrow' = escrow
  BY DEF OpenRead, TopUpRead, VoucherRead, CloseRead
<1>3. EscrowGrows
  BY <1>2, EscrowStays
<1>4. CASE Fail(r)
  BY <1>2, <1>3, <1>4, EndStep
<1>5. CASE ~Fail(r)
  <2>1. \E phase \in Phases \ Settling, j \in Job :
           /\ Moves(r, phase, j)
           /\ j.on_chain = escrow
           /\ phase \in Checked => j.signer = "payer" /\ j.cum <= escrow.deposit
    <3>1. ASSUME NEW k \in Job
          PROVE  LET j == [k EXCEPT !.on_chain = escrow] IN
                 /\ j \in Job /\ j.on_chain = escrow
                 /\ j.signer = k.signer /\ j.cum = k.cum
      BY <1>1 DEF Job
    <3>2. ASSUME NEW k \in Job
          PROVE  LET j == [k EXCEPT !.seen = 0, !.on_chain = escrow] IN
                 /\ j \in Job /\ j.on_chain = escrow
                 /\ j.signer = k.signer /\ j.cum = k.cum
      <4>1. 0 \in Amounts
        BY AmountAssumption DEF Amounts
      <4> QED
        BY <1>1, <4>1 DEF Job
    <3>3. CASE OpenRead(r)
      <4> DEFINE j == [job[r] EXCEPT !.on_chain = escrow]
      <4>1. OpenAcceptable(job[r], escrow) /\ Moves(r, "open_commit", j)
        BY <1>5, <3>3 DEF OpenRead, Proceed, Moves
      <4>2. /\ j \in Job /\ j.on_chain = escrow
            /\ j.signer = job[r].signer /\ j.cum = job[r].cum
        BY <1>1, <3>1
      <4>3. "open_commit" \in Phases \ Settling
        BY DEF Phases, Settling
      <4> HIDE DEF j
      <4> QED
        BY <4>1, <4>2, <4>3 DEF OpenAcceptable
    <3>4. CASE TopUpRead(r)
      <4> DEFINE j == [NoJob EXCEPT !.on_chain = escrow]
      <4>1. Moves(r, "topup_commit", j)
        BY <1>5, <3>4 DEF TopUpRead, Proceed, Moves
      <4>2. j \in Job /\ j.on_chain = escrow
        BY <1>1, <3>1
      <4>3. "topup_commit" \in Phases \ Settling /\ "topup_commit" \notin Checked
        BY DEF Phases, Settling, Checked
      <4> HIDE DEF j
      <4> QED
        BY <4>1, <4>2, <4>3
    <3>5. CASE VoucherRead(r)
      <4> DEFINE j == [job[r] EXCEPT !.on_chain = escrow]
      <4>1. Moves(r, "voucher_refresh", j)
        BY <1>5, <3>5 DEF VoucherRead, Proceed, Moves
      <4>2. j \in Job /\ j.on_chain = escrow
        BY <1>1, <3>1
      <4>3. "voucher_refresh" \in Phases \ Settling
            /\ "voucher_refresh" \notin Checked
        BY DEF Phases, Settling, Checked
      <4> HIDE DEF j
      <4> QED
        BY <4>1, <4>2, <4>3
    <3>6. CASE CloseRead(r)
      <4> DEFINE j == [job[r] EXCEPT !.seen = 0, !.on_chain = escrow]
      <4>1. CloseAcceptable(job[r], escrow) /\ Moves(r, "close_lock", j)
        BY <1>5, <3>6 DEF CloseRead, Proceed, Moves
      <4>2. /\ j \in Job /\ j.on_chain = escrow
            /\ j.signer = job[r].signer /\ j.cum = job[r].cum
        BY <1>1, <3>2
      <4>3. "close_lock" \in Phases \ Settling
        BY DEF Phases, Settling
      <4> HIDE DEF j
      <4> QED
        BY <4>1, <4>2, <4>3 DEF CloseAcceptable
    <3> QED
      BY <3>3, <3>4, <3>5, <3>6
  <2>2. PICK phase \in Phases \ Settling, j \in Job :
           /\ Moves(r, phase, j)
           /\ j.on_chain = escrow
           /\ phase \in Checked => j.signer = "payer" /\ j.cum <= escrow.deposit
    BY <2>1
  <2>3. JobWithinChain(phase, j, escrow')
    <3>1. escrow.deposit \in Amounts /\ escrow.settled \in Amounts
      BY <1>1 DEF OnChainChannel
    <3> QED
      BY <1>2, <2>2, <3>1, AmountAssumption DEF JobWithinChain, Amounts
  <2> QED
    BY <1>2, <1>3, <2>2, <2>3, QuietStep
<1> QED
  BY <1>4, <1>5

\* Settling on chain leaves the store alone; the lock stays where it is.
LEMMA CloseSettleStep ==
  ASSUME Inv, NEW r \in Requests, CloseSettle(r)
  PROVE  GoodStep
<1>1. /\ job[r] \in Job /\ job[r].cum \in Amounts /\ escrow \in OnChainChannel
      /\ JobWithinChain("close_settle", job[r], escrow)
  BY JobFacts DEF Inv, TypeOK, CloseSettle
<1>2. UNCHANGED <<store, charged>>
  BY DEF CloseSettle
<1>3. EscrowGrows
  BY <1>1, EscrowUpdateFacts DEF CloseSettle, EscrowGrows
<1>4. CASE Fail(r)
  BY <1>2, <1>3, <1>4, EndStep
<1>5. CASE ~Fail(r)
  <2>1. Moves(r, "close_finalize", job[r]) /\ pc[r] = "close_settle"
    BY <1>5 DEF CloseSettle, Proceed, Moves
  <2>2. JobWithinChain("close_finalize", job[r], escrow')
    <3>1. /\ job[r].on_chain.deposit \in Amounts
          /\ job[r].on_chain.settled \in Amounts
          /\ escrow.deposit \in Amounts /\ escrow'.deposit \in Amounts
          /\ escrow.settled \in Amounts /\ escrow'.settled \in Amounts
      BY <1>1, <1>3 DEF Job, OnChainChannel, EscrowGrows
    <3> QED
      BY <1>1, <1>3, <3>1, AmountAssumption
      DEF JobWithinChain, EscrowGrows, Amounts, Checked
  <2> QED
    BY <1>1, <1>2, <1>3, <2>1, <2>2, QuietStep DEF Phases, Settling
<1> QED
  BY <1>4, <1>5

\* A request that is dropped leaves everything else as it is.
LEMMA CancelStep ==
  ASSUME Inv, NEW r \in Requests, Cancel(r)
  PROVE  GoodStep
BY EscrowStays, EndStep DEF Cancel

-----------------------------------------------------------------------------
(* The writes.                                                             *)

\* A refresh with any reading the chain has not fallen behind keeps the record
\* within the chain, however old the reading is.
LEMMA RefreshWithin ==
  ASSUME NEW c \in ChannelState, NEW n \in ChannelState,
         NEW o \in OnChainChannel, NEW e \in OnChainChannel,
         StoreWithinChain(c, e), o.deposit <= e.deposit, o.settled <= e.settled,
         n.deposit = o.deposit,
         n.settled_on_chain = Larger(o.settled, c.settled_on_chain),
         n.spent = Larger(n.settled_on_chain, c.spent),
         n.highest_voucher_amount = c.highest_voucher_amount,
         n.highest_voucher_signature = c.highest_voucher_signature
  PROVE  StoreWithinChain(n, e) /\ Grows(c, n)
<1>1. /\ c.settled_on_chain \in Amounts /\ c.spent \in Amounts
      /\ c.highest_voucher_amount \in Amounts
      /\ n.settled_on_chain \in Amounts /\ n.spent \in Amounts
      /\ o.settled \in Amounts /\ e.settled \in Amounts
  BY DEF ChannelState, OnChainChannel
<1>2. /\ n.settled_on_chain >= c.settled_on_chain
      /\ n.settled_on_chain \in {o.settled, c.settled_on_chain}
      /\ n.spent >= n.settled_on_chain /\ n.spent >= c.spent
  BY <1>1, LargerFacts
<1> QED
  BY <1>1, <1>2, AmountAssumption DEF StoreWithinChain, Grows, Amounts

\* Raising to a voucher that is signed and covered does so too.
LEMMA RaiseWithin ==
  ASSUME NEW c \in ChannelState, NEW j \in Job, NEW e \in OnChainChannel,
         StoreWithinChain(c, e), j.signer = "payer", j.cum <= e.deposit
  PROVE  StoreWithinChain(Raised(c, j), e) /\ Grows(c, Raised(c, j))
<1> DEFINE n == Raised(c, j)
<1>1. /\ n.deposit = c.deposit
      /\ n.settled_on_chain = c.settled_on_chain /\ n.spent = c.spent
      /\ n.highest_voucher_amount >= c.highest_voucher_amount
      /\ \/ /\ n.highest_voucher_amount = j.cum
            /\ n.highest_voucher_signature = j.signer
         \/ /\ n.highest_voucher_amount = c.highest_voucher_amount
            /\ n.highest_voucher_signature = c.highest_voucher_signature
  BY RaisedFacts
<1>2. c.spent \in Amounts /\ c.settled_on_chain \in Amounts
  BY DEF ChannelState
<1> HIDE DEF n
<1>3. StoreWithinChain(n, e) /\ Grows(c, n)
  BY <1>1, <1>2, AmountAssumption DEF StoreWithinChain, Grows, Amounts
<1> QED
  BY <1>3 DEF n

\* Two updates in a row lose nothing either.
LEMMA GrowsTwice ==
  ASSUME NEW a \in ChannelState, NEW b \in ChannelState, NEW c \in ChannelState,
         Grows(a, b), Grows(b, c)
  PROVE  Grows(a, c)
BY AmountAssumption DEF Grows, ChannelState, Amounts

\* What the invariant says of a store that knows the channel.
LEMMA StoreFacts ==
  ASSUME Inv, StoreKnows
  PROVE  store \in ChannelState /\ StoreWithinChain(store, escrow)
BY StoreInvariants DEF Inv, TypeOK, StoreKnows

\* open commits: a new record, or a refresh and a raise of the old one.
LEMMA OpenCommitStep ==
  ASSUME Inv, NEW r \in Requests, OpenCommit(r)
  PROVE  GoodStep
<1>1. /\ job[r] \in Job /\ job[r].on_chain \in OnChainChannel
      /\ escrow \in OnChainChannel /\ JobWithinChain("open_commit", job[r], escrow)
  BY JobFacts DEF Inv, TypeOK, OpenCommit
<1>2. UNCHANGED <<escrow, charged>>
  BY DEF OpenCommit
<1>3. CASE Fail(r) /\ UNCHANGED store
  BY <1>2, <1>3, EndStep, EscrowStays
<1>4. CASE Succeed(r) /\ store' = IF StoreKnows
                                     THEN Raised(Refreshed(store, job[r].on_chain), job[r])
                                     ELSE NewChannel(job[r])
  <2>1. /\ job[r].signer = "payer" /\ job[r].cum <= escrow.deposit
        /\ job[r].on_chain.deposit <= escrow.deposit
        /\ job[r].on_chain.settled <= escrow.settled
    BY <1>1 DEF JobWithinChain, Checked
  <2>2. Moves(r, "ok", NoJob) /\ NoJob \in Job /\ JobWithinChain("ok", NoJob, escrow)
    BY <1>1, <1>4, NoJobFacts DEF Succeed, Proceed, Moves, Resting
  <2>3. /\ store' \in ChannelState /\ StoreWithinChain(store', escrow)
        /\ StoreKnows => Grows(store, store') /\ store'.closing = store.closing
    <3>1. CASE StoreKnows
      <4> DEFINE n == Refreshed(store, job[r].on_chain)
      <4>1. store \in ChannelState /\ StoreWithinChain(store, escrow)
        BY <3>1, StoreFacts
      <4>2. /\ n \in ChannelState
            /\ n.deposit = job[r].on_chain.deposit
            /\ n.settled_on_chain
                 = Larger(job[r].on_chain.settled, store.settled_on_chain)
            /\ n.spent = Larger(n.settled_on_chain, store.spent)
            /\ n.highest_voucher_amount = store.highest_voucher_amount
            /\ n.highest_voucher_signature = store.highest_voucher_signature
            /\ n.closing = store.closing
        BY <1>1, <4>1, RefreshedFacts
      <4>3. store' = Raised(n, job[r])
        BY <1>4, <3>1
      <4> HIDE DEF n
      <4>4. StoreWithinChain(n, escrow) /\ Grows(store, n)
        BY <1>1, <2>1, <4>1, <4>2, RefreshWithin
      <4>5. Raised(n, job[r]) \in ChannelState
            /\ Raised(n, job[r]).closing = n.closing
        BY <1>1, <4>2, RaisedFacts
      <4>6. /\ StoreWithinChain(Raised(n, job[r]), escrow)
            /\ Grows(n, Raised(n, job[r]))
        BY <1>1, <2>1, <4>2, <4>4, RaiseWithin
      <4> QED
        BY <4>1, <4>2, <4>3, <4>4, <4>5, <4>6, GrowsTwice
    <3>2. CASE ~StoreKnows
      <4> DEFINE n == NewChannel(job[r])
      <4>1. /\ n \in ChannelState
            /\ n.deposit = job[r].on_chain.deposit
            /\ n.settled_on_chain = job[r].on_chain.settled
            /\ n.spent = job[r].on_chain.settled
            /\ n.highest_voucher_amount = job[r].cum
            /\ n.highest_voucher_signature = job[r].signer
        BY <1>1, NewChannelFacts
      <4>2. store' = n
        BY <1>4, <3>2
      <4>3. job[r].on_chain.settled \in Amounts
        BY <1>1 DEF OnChainChannel
      <4> HIDE DEF n
      <4> QED
        BY <2>1, <3>2, <4>1, <4>2, <4>3, AmountAssumption
        DEF StoreWithinChain, Amounts
    <3> QED
      BY <3>1, <3>2
  <2>4. OneCloserAtATime' /\ LockHeldWhileSettling'
    BY <2>2, <2>3, StoreAssumption, LocksKept
    DEF Inv, Moves, Resting, Settling
  <2> QED
    BY <1>2, <2>2, <2>3, <2>4, UpdateStep DEF Resting
<1> QED
  BY <1>3, <1>4 DEF OpenCommit

\* topUp refreshes the record.
LEMMA TopUpCommitStep ==
  ASSUME Inv, NEW r \in Requests, TopUpCommit(r)
  PROVE  GoodStep
<1>1. /\ job[r] \in Job /\ job[r].on_chain \in OnChainChannel
      /\ escrow \in OnChainChannel /\ JobWithinChain("topup_commit", job[r], escrow)
  BY JobFacts DEF Inv, TypeOK, TopUpCommit
<1>2. UNCHANGED <<escrow, charged>>
  BY DEF TopUpCommit
<1>3. CASE Fail(r) /\ UNCHANGED store
  BY <1>2, <1>3, EndStep, EscrowStays
<1>4. CASE Succeed(r) /\ StoreKnows /\ store' = Refreshed(store, job[r].on_chain)
  <2>1. Moves(r, "ok", NoJob) /\ NoJob \in Job /\ JobWithinChain("ok", NoJob, escrow)
    BY <1>1, <1>4, NoJobFacts DEF Succeed, Proceed, Moves, Resting
  <2>2. store \in ChannelState /\ StoreWithinChain(store, escrow)
    BY <1>4, StoreFacts
  <2>3. /\ store' \in ChannelState
        /\ store'.deposit = job[r].on_chain.deposit
        /\ store'.settled_on_chain
             = Larger(job[r].on_chain.settled, store.settled_on_chain)
        /\ store'.spent = Larger(store'.settled_on_chain, store.spent)
        /\ store'.highest_voucher_amount = store.highest_voucher_amount
        /\ store'.highest_voucher_signature = store.highest_voucher_signature
        /\ store'.closing = store.closing
    BY <1>1, <1>4, <2>2, RefreshedFacts
  <2>4. StoreWithinChain(store', escrow) /\ Grows(store, store')
    BY <1>1, <2>2, <2>3, RefreshWithin DEF JobWithinChain
  <2>5. OneCloserAtATime' /\ LockHeldWhileSettling'
    BY <2>1, <2>3, StoreAssumption, LocksKept
    DEF Inv, Moves, Resting, Settling
  <2> QED
    BY <1>2, <2>1, <2>3, <2>4, <2>5, UpdateStep DEF Resting
<1> QED
  BY <1>3, <1>4 DEF TopUpCommit

\* voucher refreshes the record and, when the checks fail, keeps the refresh.
LEMMA VoucherRefreshStep ==
  ASSUME Inv, NEW r \in Requests, VoucherRefresh(r)
  PROVE  GoodStep
<1>1. /\ job[r] \in Job /\ job[r].on_chain \in OnChainChannel
      /\ escrow \in OnChainChannel
      /\ JobWithinChain("voucher_refresh", job[r], escrow)
  BY JobFacts DEF Inv, TypeOK, VoucherRefresh
<1>2. UNCHANGED <<escrow, charged>>
  BY DEF VoucherRefresh
<1>3. CASE Fail(r) /\ UNCHANGED store
  BY <1>2, <1>3, EndStep, EscrowStays
<1>4. CASE /\ StoreKnows
           /\ store' = VoucherRefreshed(store, job[r].on_chain)
           /\ \/ /\ VoucherAcceptable(store', job[r])
                 /\ Proceed(r, "voucher_accept", [job[r] EXCEPT !.on_chain = Unfunded])
              \/ Fail(r)
  <2>1. store \in ChannelState /\ StoreWithinChain(store, escrow)
    BY <1>4, StoreFacts
  <2>2. /\ store' \in ChannelState
        /\ store'.deposit = job[r].on_chain.deposit
        /\ store'.settled_on_chain
             = Larger(job[r].on_chain.settled, store.settled_on_chain)
        /\ store'.spent = Larger(store'.settled_on_chain, store.spent)
        /\ store'.highest_voucher_amount = store.highest_voucher_amount
        /\ store'.highest_voucher_signature = store.highest_voucher_signature
        /\ store'.closing = store.closing
    BY <1>1, <1>4, <2>1, VoucherRefreshedFacts
  <2>3. StoreWithinChain(store', escrow) /\ Grows(store, store')
    BY <1>1, <2>1, <2>2, RefreshWithin DEF JobWithinChain
  <2>4. \E phase \in {"idle", "voucher_accept"}, j \in Job :
           Moves(r, phase, j) /\ JobWithinChain(phase, j, escrow)
    <3>1. CASE Fail(r)
      BY <1>1, <3>1, NoJobFacts DEF Fail, Proceed, Moves, Resting
    <3>2. CASE /\ VoucherAcceptable(store', job[r])
               /\ Proceed(r, "voucher_accept", [job[r] EXCEPT !.on_chain = Unfunded])
      <4> DEFINE j == [job[r] EXCEPT !.on_chain = Unfunded]
      <4>1. Unfunded \in OnChainChannel
        BY AmountAssumption DEF Unfunded, OnChainChannel, Amounts
      <4>2. /\ j \in Job /\ j.on_chain = Unfunded
            /\ j.cum = job[r].cum /\ j.signer = job[r].signer
        BY <1>1, <4>1 DEF Job
      <4>3. Moves(r, "voucher_accept", j)
        BY <3>2 DEF Proceed, Moves
      <4> HIDE DEF j
      <4>4. j.signer = "payer" /\ j.cum <= escrow.deposit
        <5>1. /\ j.cum \in Amounts /\ store'.deposit \in Amounts
              /\ escrow.deposit \in Amounts
          BY <1>1, <2>2, <4>2 DEF Job, ChannelState, OnChainChannel
        <5> QED
          BY <1>1, <2>3, <3>2, <4>2, <5>1, AmountAssumption
          DEF VoucherAcceptable, StoreWithinChain, Amounts
      <4>5. JobWithinChain("voucher_accept", j, escrow)
        BY <1>1, <4>2, <4>4, AmountAssumption
        DEF JobWithinChain, Unfunded, OnChainChannel, Amounts
      <4> QED
        BY <4>2, <4>3, <4>5
    <3> QED
      BY <1>4, <3>1, <3>2
  <2>5. PICK phase \in {"idle", "voucher_accept"}, j \in Job :
           Moves(r, phase, j) /\ JobWithinChain(phase, j, escrow)
    BY <2>4
  <2>6. OneCloserAtATime' /\ LockHeldWhileSettling'
    BY <2>2, <2>5, StoreAssumption, LocksKept
    DEF Inv, Moves, Resting, Phases, Settling
  <2> QED
    BY <1>2, <2>2, <2>3, <2>5, <2>6, UpdateStep DEF Resting, Phases
<1> QED
  BY <1>3, <1>4 DEF VoucherRefresh

\* voucher raises the stored voucher to one that was checked before the await.
LEMMA VoucherAcceptStep ==
  ASSUME Inv, NEW r \in Requests, VoucherAccept(r)
  PROVE  GoodStep
<1>1. /\ job[r] \in Job /\ escrow \in OnChainChannel
      /\ JobWithinChain("voucher_accept", job[r], escrow)
  BY JobFacts DEF Inv, TypeOK, VoucherAccept
<1>2. UNCHANGED <<escrow, charged>>
  BY DEF VoucherAccept
<1>3. CASE Fail(r) /\ UNCHANGED store
  BY <1>2, <1>3, EndStep, EscrowStays
<1>4. CASE StoreKnows /\ store' = Raised(store, job[r]) /\ Succeed(r)
  <2>1. Moves(r, "ok", NoJob) /\ NoJob \in Job /\ JobWithinChain("ok", NoJob, escrow)
    BY <1>1, <1>4, NoJobFacts DEF Succeed, Proceed, Moves, Resting
  <2>2. store \in ChannelState /\ StoreWithinChain(store, escrow)
    BY <1>4, StoreFacts
  <2>3. store' \in ChannelState /\ store'.closing = store.closing
    BY <1>1, <1>4, <2>2, RaisedFacts
  <2>4. StoreWithinChain(store', escrow) /\ Grows(store, store')
    BY <1>1, <1>4, <2>2, RaiseWithin DEF JobWithinChain, Checked
  <2>5. OneCloserAtATime' /\ LockHeldWhileSettling'
    BY <2>1, <2>3, StoreAssumption, LocksKept
    DEF Inv, Moves, Resting, Settling
  <2> QED
    BY <1>2, <2>1, <2>3, <2>4, <2>5, UpdateStep DEF Resting
<1> QED
  BY <1>3, <1>4 DEF VoucherAccept

\* close takes the lock: nobody was settling, since the lock was free.
LEMMA CloseLockStep ==
  ASSUME Inv, NEW r \in Requests, CloseLock(r)
  PROVE  GoodStep
<1>1. /\ job[r] \in Job /\ escrow \in OnChainChannel
      /\ JobWithinChain("close_lock", job[r], escrow)
  BY JobFacts DEF Inv, TypeOK, CloseLock
<1>2. UNCHANGED <<escrow, charged>>
  BY DEF CloseLock
<1>3. CASE Fail(r) /\ UNCHANGED store
  BY <1>2, <1>3, EndStep, EscrowStays
<1>4. CASE /\ Lockable
           /\ store' = [store EXCEPT !.closing = TRUE]
           /\ Proceed(r, IF HasCloseSigner THEN "close_settle" ELSE "close_finalize",
                      job[r])
  <2>1. PICK phase \in Settling : Moves(r, phase, job[r])
    BY <1>4 DEF Proceed, Moves, Settling
  <2>2. store \in ChannelState /\ StoreWithinChain(store, escrow) /\ ~store.closing
    BY <1>4, StoreFacts DEF Lockable
  <2>3. /\ store' \in ChannelState /\ store'.closing
        /\ store'.deposit = store.deposit
        /\ store'.settled_on_chain = store.settled_on_chain
        /\ store'.spent = store.spent
        /\ store'.highest_voucher_amount = store.highest_voucher_amount
        /\ store'.highest_voucher_signature = store.highest_voucher_signature
    BY <1>4, <2>2 DEF ChannelState
  <2>4. StoreWithinChain(store', escrow) /\ Grows(store, store')
    BY <1>1, <2>2, <2>3, StoreStaysWithin, AmountAssumption
    DEF StoreWithinChain, Grows, ChannelState, Amounts
  <2>5. JobWithinChain(phase, job[r], escrow)
    BY <1>1, <2>1 DEF JobWithinChain, Settling, Checked
  <2>6. OneCloserAtATime' /\ LockHeldWhileSettling'
    <3>1. ASSUME NEW q \in Requests, pc'[q] \in Settling
          PROVE  q = r
      <4>1. pc[q] \notin Settling
        BY <2>2 DEF Inv, LockHeldWhileSettling
      <4> QED
        BY <2>1, <3>1, <4>1 DEF Inv, TypeOK, Moves
    <3> QED
      BY <2>3, <3>1, StoreAssumption
      DEF OneCloserAtATime, LockHeldWhileSettling, StoreKnows
  <2> QED
    BY <1>1, <1>2, <2>1, <2>3, <2>4, <2>5, <2>6, UpdateStep DEF Settling, Phases
<1> QED
  BY <1>3, <1>4 DEF CloseLock

\* close finalizes: the lock goes, and the only request it protected with it.
LEMMA CloseFinalizeStep ==
  ASSUME Inv, NEW r \in Requests, CloseFinalize(r)
  PROVE  GoodStep
<1>1. /\ job[r] \in Job /\ escrow \in OnChainChannel
      /\ JobWithinChain("close_finalize", job[r], escrow)
      /\ pc[r] = "close_finalize"
  BY JobFacts DEF Inv, TypeOK, CloseFinalize
<1>2. UNCHANGED <<escrow, charged>>
  BY DEF CloseFinalize
<1>3. CASE Fail(r) /\ UNCHANGED store
  BY <1>2, <1>3, EndStep, EscrowStays
<1>4. CASE Succeed(r) /\ store' = IF StoreKnows THEN Finalized(store, job[r]) ELSE store
  <2>1. Moves(r, "ok", NoJob) /\ NoJob \in Job /\ JobWithinChain("ok", NoJob, escrow)
    BY <1>1, <1>4, NoJobFacts DEF Succeed, Proceed, Moves, Resting
  <2>2. StoreKnows
    BY <1>1 DEF Inv, LockHeldWhileSettling, Settling
  <2>3. store \in ChannelState /\ StoreWithinChain(store, escrow)
    BY <2>2, StoreFacts
  <2> DEFINE n == Raised(store, job[r])
  <2>4. StoreWithinChain(n, escrow) /\ Grows(store, n)
    BY <1>1, <2>3, RaiseWithin DEF JobWithinChain, Checked
  <2>5. /\ store' \in ChannelState
        /\ store'.deposit = job[r].on_chain.deposit
        /\ store'.settled_on_chain = store.settled_on_chain
        /\ store'.spent = store.spent
        /\ store'.highest_voucher_amount = n.highest_voucher_amount
        /\ store'.highest_voucher_signature = n.highest_voucher_signature
    BY <1>1, <1>4, <2>2, <2>3, FinalizedFacts
  <2>6. n.settled_on_chain = store.settled_on_chain /\ n.spent = store.spent
    BY <1>1, <2>3, RaisedFacts
  <2> HIDE DEF n
  <2>7. StoreWithinChain(store', escrow) /\ Grows(store, store')
    BY <1>1, <2>4, <2>5, <2>6 DEF StoreWithinChain, Grows, JobWithinChain
  <2>8. OneCloserAtATime' /\ LockHeldWhileSettling'
    <3>1. ASSUME NEW q \in Requests, pc'[q] \in Settling
          PROVE  FALSE
      <4>1. q # r /\ pc[q] \in Settling
        BY <2>1, <3>1 DEF Inv, TypeOK, Moves, Settling
      <4> QED
        BY <1>1, <4>1 DEF Inv, OneCloserAtATime, Settling
    <3> QED
      BY <3>1 DEF OneCloserAtATime, LockHeldWhileSettling
  <2> QED
    BY <1>2, <2>1, <2>5, <2>7, <2>8, UpdateStep DEF Resting
<1> QED
  BY <1>3, <1>4 DEF CloseFinalize

-----------------------------------------------------------------------------
(* Metering, the chain and the faults.                                     *)

\* A deduction spends what the highest voucher covers and nothing more.
LEMMA DeductStep ==
  ASSUME Inv, Deduct
  PROVE  GoodStep
<1>1. store \in ChannelState /\ StoreWithinChain(store, escrow) /\ StoreKnows
  BY StoreFacts DEF Deduct
<1>2. PICK cost \in TickCosts :
        /\ Chargeable(store, cost)
        /\ store' = [store EXCEPT !.spent = @ + cost]
        /\ charged' = charged + cost
  BY DEF Deduct
<1>3. /\ cost \in Nat /\ charged \in Nat /\ MaxAmount \in Nat
      /\ store.spent \in Amounts /\ store.highest_voucher_amount \in Amounts
      /\ store.settled_on_chain \in Amounts
  BY <1>1, AmountAssumption DEF Inv, TypeOK, ChannelState
<1>4. \/ store.spent + cost <= store.highest_voucher_amount
      \/ cost = 0
  <2>1. Larger(store.highest_voucher_amount - store.spent, 0) >= cost
    BY <1>2 DEF Chargeable
  <2> QED
    BY <1>3, <2>1 DEF Larger, Amounts
<1>5. store.spent + cost \in Amounts
  BY <1>3, <1>4 DEF Amounts
<1>6. /\ store' \in ChannelState
      /\ store'.deposit = store.deposit
      /\ store'.settled_on_chain = store.settled_on_chain
      /\ store'.spent = store.spent + cost
      /\ store'.highest_voucher_amount = store.highest_voucher_amount
      /\ store'.highest_voucher_signature = store.highest_voucher_signature
      /\ store'.closing = store.closing
  BY <1>1, <1>2, <1>5 DEF ChannelState
<1>7. UNCHANGED <<escrow, pc, job>>
  BY DEF Deduct
<1>8. StoreWithinChain(store', escrow) /\ Grows(store, store')
  BY <1>1, <1>3, <1>6 DEF StoreWithinChain, Grows, Amounts
<1>9. store' # NoChannel
  BY <1>6, StoreAssumption
<1>10. TypeOK'
  BY <1>2, <1>3, <1>6, <1>7 DEF Inv, TypeOK
<1>11. VoucherBacked' /\ StoreBehindChain'
  BY <1>7, <1>8 DEF VoucherBacked, StoreBehindChain, StoreWithinChain
<1>12. JobsWithinChain' /\ OneCloserAtATime' /\ LockHeldWhileSettling'
  BY <1>6, <1>7, <1>9
  DEF Inv, JobsWithinChain, OneCloserAtATime, LockHeldWhileSettling, StoreKnows
<1>13. /\ charged' <= store'.spent
       /\ charged' <= store'.highest_voucher_amount \/ charged' = 0
  <2>1. charged > 0 => /\ charged <= store.spent
                       /\ charged <= store.highest_voucher_amount
    BY DEF Inv, ChargesCovered
  <2> QED
    BY <1>2, <1>3, <1>4, <1>6, <2>1 DEF Amounts
<1>14. ChargesCovered'
  BY <1>2, <1>3, <1>9, <1>13 DEF ChargesCovered, StoreKnows
<1>15. MeteredStep
  <2>1. CASE cost = 0
    <3>1. charged' = charged
      BY <1>2, <1>3, <2>1
    <3>2. UNCHANGED MeteredVars
      BY <1>1, <1>6, <1>7, <1>9, <3>1 DEF MeteredVars, StoreKnows
    <3> QED
      BY <3>2 DEF MeteredStep
  <2>2. CASE cost # 0
    <3>1. charged' \in Nat /\ charged' > charged
      BY <1>2, <1>3, <2>2
    <3>2. charged' <= store.highest_voucher_amount
      BY <1>3, <1>6, <1>13, <3>1
    <3> QED
      BY <1>1, <1>6, <1>7, <1>9, <3>1, <3>2
      DEF MeteredStep, Metered!Next, Metered!Deliver, StoreKnows
  <2> QED
    BY <2>1, <2>2
<1> QED
  BY <1>8, <1>10, <1>11, <1>12, <1>14, <1>15 DEF GoodStep, Inv, AccountingStep

\* A step of the chain alone, or no step at all.
LEMMA ChainStep ==
  ASSUME Inv, EscrowGrows, UNCHANGED <<store, pc, job, charged>>
  PROVE  GoodStep
<1>1. CASE \E r \in Requests : TRUE
  <2>1. PICK r \in Requests : TRUE
    BY <1>1
  <2>2. Moves(r, pc[r], job[r]) /\ pc[r] \in Resting \cup Phases /\ job[r] \in Job
    BY DEF Moves, Inv, TypeOK
  <2>3. JobWithinChain(pc[r], job[r], escrow')
    <3>1. JobWithinChain(pc[r], job[r], escrow)
      BY JobFacts
    <3>2. /\ job[r].on_chain \in OnChainChannel /\ job[r].cum \in Amounts
          /\ escrow \in OnChainChannel /\ escrow' \in OnChainChannel
      BY JobFacts DEF Inv, TypeOK, EscrowGrows
    <3> QED
      BY <3>1, <3>2, AmountAssumption
      DEF JobWithinChain, EscrowGrows, OnChainChannel, Amounts
  <2> QED
    BY <2>2, <2>3, QuietStep
<1>2. CASE ~(\E r \in Requests : TRUE)
  <2>1. StoreKnows => StoreWithinChain(store, escrow') /\ Grows(store, store)
    BY StoreFacts, StoreStaysWithin DEF Inv, TypeOK, EscrowGrows
  <2>2. VoucherBacked' /\ StoreBehindChain'
    BY <2>1 DEF VoucherBacked, StoreBehindChain, StoreWithinChain, StoreKnows
  <2>3. JobsWithinChain' /\ OneCloserAtATime' /\ LockHeldWhileSettling'
    BY <1>2 DEF JobsWithinChain, OneCloserAtATime, LockHeldWhileSettling
  <2>4. TypeOK'
    BY DEF Inv, TypeOK, EscrowGrows
  <2>5. (ChargesCovered') /\ AccountingStep
    BY <2>1 DEF Inv, ChargesCovered, StoreKnows, AccountingStep
  <2>6. MeteredStep
    <3>1. CASE escrow'.deposit = escrow.deposit
      BY <3>1 DEF MeteredStep, MeteredVars, StoreKnows
    <3>2. CASE escrow'.deposit # escrow.deposit
      <4>1. escrow'.deposit \in Nat /\ escrow'.deposit > escrow.deposit
        BY <3>2, AmountAssumption
        DEF Inv, TypeOK, EscrowGrows, OnChainChannel, Amounts
      <4> QED
        BY <4>1 DEF MeteredStep, Metered!Next, Metered!Fund, StoreKnows
    <3> QED
      BY <3>1, <3>2
  <2> QED
    BY <2>2, <2>3, <2>4, <2>5, <2>6 DEF GoodStep, Inv
<1> QED
  BY <1>1, <1>2

\* The payer's and the operator's steps in the contract.
LEMMA ContractStep ==
  ASSUME Inv, RequestClose \/ Withdraw \/ Settle
  PROVE  GoodStep
<1>1. UNCHANGED <<store, pc, job, charged>>
  BY DEF RequestClose, Withdraw, Settle
<1>2. escrow \in OnChainChannel /\ escrow.deposit \in Amounts
      /\ escrow.settled \in Amounts /\ escrow.deposit >= escrow.deposit
      /\ escrow.settled >= escrow.settled
  BY AmountAssumption DEF Inv, TypeOK, OnChainChannel, Amounts
<1>3. EscrowGrows
  <2>1. CASE RequestClose
    BY <1>2, <2>1 DEF RequestClose, EscrowGrows, OnChainChannel
  <2>2. CASE Withdraw
    BY <1>2, <2>2 DEF Withdraw, EscrowGrows, OnChainChannel
  <2>3. CASE Settle
    <3>1. PICK v \in Amounts :
            v > escrow.settled /\ escrow' = [escrow EXCEPT !.settled = v]
      BY <2>3 DEF Settle
    <3>2. v >= escrow.settled
      BY <1>2, <3>1, AmountAssumption DEF Amounts
    <3> QED
      BY <1>2, <3>1, <3>2 DEF EscrowGrows, OnChainChannel
  <2> QED
    BY <2>1, <2>2, <2>3
<1> QED
  BY <1>1, <1>3, ChainStep

\* A cold start forgets the store and every request; the chain remembers.
LEMMA ColdStartStep ==
  ASSUME Inv, ColdStart
  PROVE  GoodStep
<1>1. NoJob \in Job /\ JobWithinChain("idle", NoJob, escrow) /\ UNCHANGED escrow
  BY NoJobFacts DEF ColdStart, Inv, TypeOK, Resting
<1>2. /\ TypeOK' /\ JobsWithinChain'
      /\ OneCloserAtATime' /\ LockHeldWhileSettling'
  BY <1>1
  DEF Inv, ColdStart, TypeOK, Resting, JobsWithinChain, OneCloserAtATime,
      LockHeldWhileSettling, Settling
<1>3. VoucherBacked' /\ StoreBehindChain' /\ AccountingStep
  BY DEF ColdStart, VoucherBacked, StoreBehindChain, AccountingStep, StoreKnows
<1>4. ChargesCovered'
  BY DEF ColdStart, ChargesCovered
<1>5. MeteredStep
  BY DEF ColdStart, StoreKnows, MeteredStep, Metered!Next, Metered!Restart
<1> QED
  BY <1>2, <1>3, <1>4, <1>5 DEF GoodStep, Inv

-----------------------------------------------------------------------------
(* The theorems.                                                           *)

\* Initially the channel does not exist anywhere.
LEMMA InitInv == Init => Inv
<1> SUFFICES ASSUME Init PROVE Inv
  OBVIOUS
<1>1. escrow \in OnChainChannel /\ ~StoreKnows
  BY AmountAssumption DEF Init, Unfunded, OnChainChannel, Amounts, StoreKnows
<1>2. NoJob \in Job /\ JobWithinChain("idle", NoJob, escrow)
  BY <1>1, NoJobFacts DEF Resting
<1>3. TypeOK /\ JobsWithinChain
  BY <1>1, <1>2 DEF Init, TypeOK, JobsWithinChain, StoreKnows, Resting
<1>4. VoucherBacked /\ StoreBehindChain /\ ChargesCovered
  BY <1>1 DEF Init, VoucherBacked, StoreBehindChain, ChargesCovered
<1>5. OneCloserAtATime /\ LockHeldWhileSettling
  BY DEF Init, OneCloserAtATime, LockHeldWhileSettling, Settling
<1> QED
  BY <1>3, <1>4, <1>5 DEF Inv

\* Every step is good.
LEMMA NextIsGood ==
  ASSUME Inv, [Next]_vars
  PROVE  GoodStep
<1>1. ASSUME NEW r \in Requests, Start(r) \/ Handle(r) \/ Cancel(r)
      PROVE  GoodStep
  <2>1. CASE Handle(r)
    BY <2>1, BroadcastStep, ReadStep, OpenCommitStep, TopUpCommitStep,
       VoucherRefreshStep, VoucherAcceptStep, CloseLockStep, CloseSettleStep,
       CloseFinalizeStep
    DEF Handle
  <2> QED
    BY <1>1, <2>1, StartStep, CancelStep
<1>2. CASE UNCHANGED vars
  BY <1>2, EscrowStays, ChainStep DEF vars
<1> QED
  BY <1>1, <1>2, DeductStep, ContractStep, ColdStartStep DEF Next

\* The inductive invariant holds in every behaviour.
LEMMA Invariance == Spec => []Inv
<1>1. Inv /\ [Next]_vars => Inv'
  BY NextIsGood DEF GoodStep
<1> QED
  BY <1>1, InitInv, PTL DEF Spec

\* The state stays well typed: no update leaves the ranges of the fields.
THEOREM TypeCorrect == Spec => []TypeOK
BY Invariance, PTL DEF Inv

\* The voucher the server holds is the payer's and covered by the escrow.
THEOREM VoucherAlwaysBacked == Spec => []VoucherBacked
BY Invariance, PTL DEF Inv

\* The stored record never runs ahead of the chain.
THEOREM StoreAlwaysBehindChain == Spec => []StoreBehindChain
BY Invariance, PTL DEF Inv

\* Two closes are never in settlement together.
THEOREM OneCloser == Spec => []OneCloserAtATime
BY Invariance, PTL DEF Inv

\* The lock is in place throughout a settlement.
THEOREM LockHeld == Spec => []LockHeldWhileSettling
BY Invariance, PTL DEF Inv

\* What a handler captured before an await is still good after it.
THEOREM CapturesStayGood == Spec => []JobsWithinChain
BY Invariance, PTL DEF Inv

\* No step takes back the accepted voucher, the spent or the settled amount.
THEOREM AccountingGrows == Spec => AccountingOnlyGrows
<1>1. Inv /\ [Next]_vars =>
        [StoreKnows /\ store' # NoChannel =>
           /\ store'.highest_voucher_amount >= store.highest_voucher_amount
           /\ store'.spent >= store.spent
           /\ store'.settled_on_chain >= store.settled_on_chain]_vars
  BY NextIsGood DEF GoodStep, AccountingStep, Grows
<1> QED
  BY <1>1, Invariance, PTL DEF Spec, AccountingOnlyGrows

\* No amount of concurrency or failure lets the server charge, between two cold
\* starts, more than the highest voucher covers.
THEOREM ChargesAlwaysCovered == Spec => []ChargesCovered
BY Invariance, PTL DEF Inv

\* The server, its streams and the chain implement the abstract metered channel.
THEOREM Refinement == Spec => ImplementsMeteredChannel
<1>1. Init => Metered!Init
  BY DEF Init, Metered!Init, Unfunded, StoreKnows
<1>2. Inv /\ [Next]_vars => Metered!Next \/ UNCHANGED MeteredVars
  BY NextIsGood DEF GoodStep, MeteredStep
<1> QED
  BY <1>1, <1>2, Invariance, PTL
  DEF Spec, ImplementsMeteredChannel, Metered!Spec, MeteredVars
=============================================================================
