------------------------- MODULE MeteredStreamProofs -------------------------
(***************************************************************************)
(* Proofs about MeteredStream, for any streams, items and costs.           *)
(***************************************************************************)
EXTENDS MeteredStream, TLAPS

\* What is asked of the client is never more than one item beyond what is spent.
EventsBounded ==
  \A s \in Streams : inbox[s] <= channel.spent + TickCost

\* What it is signing is bounded like what it has authorised.
SigningBounded ==
  \A s \in Streams :
    signing[s] <= InitialCum \/ signing[s] <= channel.spent + TickCost

SpentWithinVoucher == channel.spent <= channel.highest

PaidIsSpent == \A s \in Streams : TickCost * paid[s] <= channel.spent

NoReceiptYet == \A s \in Streams : pc[s] # "done" => receipt[s] = Nothing

Inv ==
  /\ TypeOK
  /\ EveryItemPaidOnce /\ NoItemSkipped
  /\ EventsBounded /\ SigningBounded /\ ExposureBounded
  /\ SpentWithinVoucher /\ PaidIsSpent
  /\ NoReceiptYet /\ ReceiptAccounts

-----------------------------------------------------------------------------

\* One more item costs one more tick.
LEMMA OneMoreTick ==
  ASSUME NEW n \in Nat
  PROVE  /\ TickCost * n \in Nat
         /\ TickCost * (n + 1) = TickCost * n + TickCost
BY StreamAssumption

\* The fields of the stored channel.
LEMMA ChannelFacts ==
  ASSUME TypeOK
  PROVE  channel.highest \in Nat /\ channel.spent \in Nat
BY DEF TypeOK

\* The step of the channel that every action makes or leaves out: what is spent
\* and authorised grows, and spending stays within the voucher.
ChannelStep ==
  /\ channel'.spent >= channel.spent
  /\ channel'.highest >= channel.highest
  /\ channel'.spent <= channel'.highest
  /\ channel'.status = "open" => channel.status = "open"

\* No action takes money back, and none spends what is not authorised.
LEMMA ChannelGrows ==
  ASSUME Inv, [Next]_vars
  PROVE  ChannelStep /\ channel' \in [highest: Nat, spent: Nat,
                                      status: {"open", "closing", "finalized"}]
<1>0. /\ channel \in [highest: Nat, spent: Nat,
                      status: {"open", "closing", "finalized"}]
      /\ channel.spent <= channel.highest /\ TickCost \in Nat
      /\ post \in [Streams -> Nat \cup {None}]
  BY StreamAssumption DEF Inv, TypeOK, SpentWithinVoucher
<1>1. CASE UNCHANGED channel
  BY <1>0, <1>1 DEF ChannelStep
<1>2. CASE \E s \in Streams : Charge(s)
  BY <1>0, <1>2 DEF Charge, Sufficient, ChannelStep
<1>3. CASE \E s \in Streams : VoucherArrives(s)
  BY <1>0, <1>3 DEF VoucherArrives, Acceptable, ChannelStep
<1>4. CASE Close
  BY <1>0, <1>4 DEF Close, ChannelStep
<1> QED
  BY <1>1, <1>2, <1>3, <1>4
  DEF Next, Serve, Pull, Ask, Listen, WakeOnUpdate, Poll, Emit, Receipt, Drop,
      SignVoucher, SendVoucher, VoucherLost, serverVars, vars

\* The state stays well typed.
LEMMA TypeStep ==
  ASSUME Inv, [Next]_vars
  PROVE  TypeOK'
<1> USE StreamAssumption
<1>0. TypeOK /\ channel' \in [highest: Nat, spent: Nat,
                              status: {"open", "closing", "finalized"}]
  BY ChannelGrows DEF Inv
<1>1. ASSUME NEW s \in Streams, Serve(s) \/ Drop(s)
      PROVE  TypeOK'
  <2>1. CASE Pull(s)
    <3>1. left' \in [Streams -> 0..Items]
      BY <1>0, <2>1 DEF TypeOK, Pull
    <3> QED
      BY <1>0, <2>1, <3>1 DEF TypeOK, Pull, Go, Running, clientVars
  <2>2. CASE Charge(s)
    <3>0. notified' \in [Streams -> BOOLEAN]
      <4>1. CASE Notify
        BY <4>1 DEF Notify
      <4>2. CASE UNCHANGED notified
        BY <1>0, <4>2 DEF TypeOK
      <4> QED
        BY <2>2, <4>1, <4>2 DEF Charge
    <3>1. paid' \in [Streams -> Nat]
      <4>1. CASE paid' = [paid EXCEPT ![s] = @ + 1]
        BY <1>0, <4>1 DEF TypeOK
      <4>2. CASE UNCHANGED paid
        BY <1>0, <4>2 DEF TypeOK
      <4> QED
        BY <2>2, <4>1, <4>2 DEF Charge
    <3>2. pc' \in [Streams -> Running \cup Ended]
      <4>1. PICK to \in {"emit", "ask", "receipt"} : pc' = [pc EXCEPT ![s] = to]
        BY <2>2 DEF Charge, OnClosed, Go
      <4>2. pc \in [Streams -> Running \cup Ended] /\ to \in Running
        BY <1>0 DEF TypeOK, Running
      <4> QED BY <4>1, <4>2
    <3>3. UNCHANGED <<left, receipt, delivered, inbox, cum, signing, post>>
      BY <2>2 DEF Charge, clientVars
    <3> QED
      BY <1>0, <3>0, <3>1, <3>2, <3>3 DEF TypeOK
  <2>3. CASE Ask(s)
    <3>1. Required(channel) \in Nat
      BY <1>0, ChannelFacts DEF Required
    <3>2. inbox' \in [Streams -> Nat \cup {None}]
      BY <1>0, <2>3, <3>1 DEF TypeOK, Ask
    <3> QED
      BY <1>0, <2>3, <3>2 DEF TypeOK, Ask, Go, Running, clientVars
  <2>4. CASE Listen(s)
    BY <1>0, <2>4 DEF TypeOK, Listen, Go, Running, clientVars
  <2>5. CASE WakeOnUpdate(s) \/ Poll(s)
    BY <1>0, <2>5 DEF TypeOK, WakeOnUpdate, Poll, Go, Running, Resumed, clientVars
  <2>6. CASE Emit(s)
    BY <1>0, <2>6 DEF TypeOK, Emit, Go, Running, clientVars
  <2>7. CASE Receipt(s)
    <3>1. FinalReceipt(channel) \in [accepted: Nat, spent: Nat]
      BY <1>0, ChannelFacts DEF FinalReceipt
    <3> QED
      BY <1>0, <2>7, <3>1 DEF TypeOK, Receipt, Go, Ended, clientVars
  <2>8. CASE Drop(s)
    BY <1>0, <2>8 DEF TypeOK, Drop, Go, Ended, clientVars
  <2> QED
    BY <1>1, <2>1, <2>2, <2>3, <2>4, <2>5, <2>6, <2>7, <2>8 DEF Serve
<1>2. ASSUME NEW s \in Streams,
             \/ SignVoucher(s) \/ SendVoucher(s)
             \/ VoucherArrives(s) \/ VoucherLost(s)
      PROVE  TypeOK'
  <2>0. CASE SignVoucher(s)
    <3>1. Authorised(inbox[s]) \in Nat
      BY <1>0, <2>0 DEF TypeOK, SignVoucher, Authorised
    <3> QED
      BY <1>0, <2>0, <3>1 DEF TypeOK, SignVoucher, serverVars
  <2>1. CASE SendVoucher(s)
    BY <1>0, <2>1 DEF TypeOK, SendVoucher, serverVars
  <2>2. CASE VoucherArrives(s)
    BY <1>0, <2>2 DEF TypeOK, VoucherArrives, Notify
  <2>3. CASE VoucherLost(s)
    BY <1>0, <2>3 DEF TypeOK, VoucherLost, serverVars
  <2> QED
    BY <1>2, <2>0, <2>1, <2>2, <2>3
<1>3. CASE Close
  BY <1>0, <1>3 DEF TypeOK, Close, Notify, clientVars
<1>4. CASE UNCHANGED vars
  BY <1>0, <1>4 DEF TypeOK, vars, serverVars, clientVars
<1> QED
  BY <1>1, <1>2, <1>3, <1>4 DEF Next

\* What a step of one stream, of its reader or of the channel leaves alone.
LEMMA Frames ==
  ASSUME NEW s \in Streams
  PROVE  /\ Pull(s) \/ Ask(s) \/ Listen(s) \/ WakeOnUpdate(s) \/ Poll(s)
              => UNCHANGED <<channel, receipt, paid, delivered, cum>>
         /\ Charge(s) => UNCHANGED <<left, receipt, delivered, inbox, cum>>
         /\ Emit(s) => UNCHANGED <<channel, left, receipt, paid, inbox, cum>>
         /\ Receipt(s) \/ Drop(s) => UNCHANGED <<channel, left, paid, delivered, inbox, cum>>
         /\ SignVoucher(s) \/ SendVoucher(s) \/ VoucherLost(s)
              => UNCHANGED <<channel, pc, left, receipt, paid, delivered>>
         /\ VoucherArrives(s) \/ Close
              => UNCHANGED <<pc, left, inbox, cum, signing, receipt, paid, delivered>>
         /\ Serve(s) \/ Drop(s) \/ VoucherLost(s) => UNCHANGED <<cum, signing>>
BY DEF Pull, Ask, Listen, WakeOnUpdate, Poll, Charge, Emit, Receipt, Drop,
       SignVoucher, SendVoucher, VoucherLost, VoucherArrives, Close, Serve,
       serverVars, clientVars

\* Items: what is paid, held and sent stays in step.
LEMMA ItemsStep ==
  ASSUME Inv, [Next]_vars
  PROVE  EveryItemPaidOnce' /\ NoItemSkipped'
<1>0. TypeOK /\ EveryItemPaidOnce /\ NoItemSkipped /\ ChannelStep
  BY ChannelGrows DEF Inv
<1> USE DEF InHand, Holding, Running
<1> SUFFICES ASSUME NEW q \in Streams
             PROVE  /\ delivered'[q] + InHand(q)' <= paid'[q]
                    /\ pc'[q] # "gone" => paid'[q] = delivered'[q] + InHand(q)'
                    /\ (pc'[q] \in Running
                         /\ (pc'[q] = "receipt" => channel'.status = "open"))
                       => delivered'[q] + left'[q]
                            + (IF pc'[q] \in Holding THEN 1 ELSE 0) = Items
  BY DEF EveryItemPaidOnce, NoItemSkipped
<1>9. /\ delivered[q] + InHand(q) <= paid[q]
      /\ pc[q] # "gone" => paid[q] = delivered[q] + InHand(q)
      /\ (pc[q] \in Running /\ (pc[q] = "receipt" => channel.status = "open"))
           => delivered[q] + left[q] + (IF pc[q] \in Holding THEN 1 ELSE 0) = Items
      /\ paid[q] \in Nat /\ delivered[q] \in Nat /\ left[q] \in Nat /\ Items \in Nat
  BY <1>0, StreamAssumption DEF EveryItemPaidOnce, NoItemSkipped, TypeOK
<1>1. ASSUME NEW s \in Streams, Serve(s) \/ Drop(s)
      PROVE  /\ delivered'[q] + InHand(q)' <= paid'[q]
             /\ pc'[q] # "gone" => paid'[q] = delivered'[q] + InHand(q)'
             /\ (pc'[q] \in Running
                  /\ (pc'[q] = "receipt" => channel'.status = "open"))
                => delivered'[q] + left'[q]
                     + (IF pc'[q] \in Holding THEN 1 ELSE 0) = Items
  <2>1. CASE q # s
    <3>1. /\ pc'[q] = pc[q] /\ delivered'[q] = delivered[q]
          /\ paid'[q] = paid[q] /\ left'[q] = left[q]
      BY <1>0, <1>1, <2>1
      DEF TypeOK, Serve, Pull, Charge, Ask, Listen, WakeOnUpdate, Poll, Emit,
          Receipt, Drop, Go
    <3> QED
      BY <1>0, <1>9, <3>1 DEF ChannelStep
  <2>2. CASE q = s
    <3>1. CASE Pull(s)
      BY <1>0, <1>9, <2>2, <3>1, Frames DEF Pull, Go, TypeOK
    <3>2. CASE Charge(s)
      <4>0. /\ left' = left /\ delivered' = delivered /\ pc[q] = "charge"
            /\ paid[q] = delivered[q] /\ delivered[q] + left[q] + 1 = Items
        BY <1>9, <2>2, <3>2, Frames DEF Charge
      <4>1. CASE pc'[q] = "emit" /\ paid'[q] = paid[q] + 1
        BY <1>9, <4>0, <4>1
      <4>2. CASE pc'[q] = "ask" /\ paid' = paid
        BY <1>9, <4>0, <4>2
      <4>3. CASE pc'[q] = "receipt" /\ paid' = paid /\ channel'.status # "open"
        BY <1>9, <4>0, <4>3
      <4> QED
        BY <1>0, <2>2, <3>2, <4>1, <4>2, <4>3 DEF Charge, OnClosed, Go, TypeOK
    <3>3. CASE Ask(s) \/ Listen(s) \/ WakeOnUpdate(s) \/ Poll(s)
      BY <1>0, <1>9, <2>2, <3>3, Frames
      DEF Ask, Listen, WakeOnUpdate, Poll, Resumed, Go, TypeOK
    <3>4. CASE Emit(s)
      <4>1. /\ left' = left /\ paid' = paid /\ pc[q] = "emit"
            /\ paid[q] = delivered[q] + 1 /\ delivered[q] + left[q] + 1 = Items
        BY <1>9, <2>2, <3>4, Frames DEF Emit
      <4>2. pc'[q] = "pull" /\ delivered'[q] = delivered[q] + 1
        BY <1>0, <2>2, <3>4 DEF Emit, Go, TypeOK
      <4> QED
        BY <1>9, <4>1, <4>2
    <3>5. CASE Receipt(s)
      BY <1>0, <1>9, <2>2, <3>5, Frames DEF Receipt, Go, TypeOK
    <3>6. CASE Drop(s)
      BY <1>0, <1>9, <2>2, <3>6, Frames DEF Drop, Go, TypeOK
    <3> QED
      BY <1>1, <3>1, <3>2, <3>3, <3>4, <3>5, <3>6 DEF Serve
  <2> QED
    BY <2>1, <2>2
<1>2. CASE UNCHANGED <<pc, left, paid, delivered>>
  BY <1>0, <1>2, <1>9 DEF ChannelStep
<1> QED
  BY <1>1, <1>2, Frames DEF Next, vars, serverVars

\* Money: what the client has authorised, what the receipts claim.
LEMMA MoneyStep ==
  ASSUME Inv, [Next]_vars
  PROVE  /\ EventsBounded' /\ SigningBounded' /\ ExposureBounded'
         /\ SpentWithinVoucher'
         /\ PaidIsSpent' /\ NoReceiptYet' /\ ReceiptAccounts'
<1>0. /\ TypeOK /\ ChannelStep /\ SpentWithinVoucher /\ TickCost \in Nat
      /\ channel.spent \in Nat /\ channel.highest \in Nat
      /\ channel'.spent \in Nat /\ channel'.highest \in Nat
  BY ChannelGrows, ChannelFacts, StreamAssumption DEF Inv
<1>1. SpentWithinVoucher'
  BY <1>0 DEF SpentWithinVoucher, ChannelStep
<1>2. ASSUME NEW q \in Streams
      PROVE  inbox'[q] <= channel'.spent + TickCost
  <2>1. inbox[q] <= channel.spent + TickCost /\ inbox[q] \in Nat \cup {None}
    BY <1>0 DEF Inv, EventsBounded, TypeOK
  <2>2. \/ inbox'[q] = inbox[q]
        \/ inbox'[q] = None
        \/ inbox'[q] = channel.spent + TickCost
    BY <1>0, Frames
    DEF Next, Serve, Ask, Required, SignVoucher, SendVoucher, TypeOK, vars,
        Pull, Listen, WakeOnUpdate, Poll, VoucherLost
  <2> QED
    BY <1>0, <2>1, <2>2 DEF ChannelStep, None
<1>3. ExposureBounded' /\ SigningBounded'
  <2>0. /\ InitialCum \in Nat /\ cum \in Nat
        /\ signing \in [Streams -> Nat \cup {None}]
        /\ inbox \in [Streams -> Nat \cup {None}]
        /\ ExposureBounded /\ SigningBounded /\ EventsBounded
    BY <1>0, StreamAssumption DEF Inv, TypeOK
  <2>1. ASSUME NEW s \in Streams, SignVoucher(s)
        PROVE  ExposureBounded' /\ SigningBounded'
    <3>1. Authorised(inbox[s]) = cum \/ Authorised(inbox[s]) = inbox[s]
      BY DEF Authorised
    <3>2. \/ Authorised(inbox[s]) <= InitialCum
          \/ Authorised(inbox[s]) <= channel.spent + TickCost
      BY <2>0, <3>1 DEF ExposureBounded, EventsBounded
    <3> QED
      BY <2>0, <2>1, <3>2 DEF SignVoucher, serverVars, ExposureBounded, SigningBounded
  <2>2. ASSUME NEW s \in Streams, SendVoucher(s)
        PROVE  ExposureBounded' /\ SigningBounded'
    BY <1>0, <2>0, <2>2
    DEF SendVoucher, serverVars, ExposureBounded, SigningBounded, None
  <2>3. CASE UNCHANGED <<cum, signing>>
    <3>1. ExposureBounded'
      BY <1>0, <2>0, <2>3 DEF ExposureBounded, ChannelStep
    <3>2. ASSUME NEW s \in Streams
          PROVE  signing[s] <= InitialCum \/ signing[s] <= channel'.spent + TickCost
      <4>1. signing[s] \in Int /\ InitialCum \in Int
        BY <2>0 DEF None
      <4>2. signing[s] <= InitialCum \/ signing[s] <= channel.spent + TickCost
        BY <2>0 DEF SigningBounded
      <4> QED
        BY <1>0, <4>1, <4>2 DEF ChannelStep
    <3>3. SigningBounded'
      <4>1. signing' = signing
        BY <2>3
      <4> QED
        BY <3>2, <4>1 DEF SigningBounded
    <3> QED
      BY <3>1, <3>3
  <2>4. \/ \E s \in Streams : SignVoucher(s) \/ SendVoucher(s)
        \/ UNCHANGED <<cum, signing>>
    <3>1. ASSUME NEW s \in Streams, VoucherArrives(s)
          PROVE  UNCHANGED <<cum, signing>>
      BY <3>1 DEF VoucherArrives
    <3>2. CASE Close
      BY <3>2 DEF Close, clientVars
    <3>3. CASE UNCHANGED vars
      BY <3>3 DEF vars, clientVars
    <3> QED
      BY <3>1, <3>2, <3>3, Frames DEF Next
  <2> QED
    BY <2>1, <2>2, <2>3, <2>4
<1>4. ASSUME NEW q \in Streams
      PROVE  TickCost * paid'[q] <= channel'.spent
  <2>1. /\ TickCost * paid[q] <= channel.spent /\ paid[q] \in Nat
        /\ TickCost * paid[q] \in Nat
        /\ TickCost * (paid[q] + 1) = TickCost * paid[q] + TickCost
    BY <1>0, OneMoreTick DEF Inv, PaidIsSpent, TypeOK
  <2>2. CASE paid'[q] = paid[q]
    BY <1>0, <2>1, <2>2 DEF ChannelStep
  <2>3. CASE paid'[q] = paid[q] + 1 /\ channel'.spent = channel.spent + TickCost
    BY <1>0, <2>1, <2>3
  <2>4. ASSUME NEW s \in Streams, Charge(s)
        PROVE  \/ paid'[q] = paid[q]
               \/ paid'[q] = paid[q] + 1 /\ channel'.spent = channel.spent + TickCost
    BY <1>0, <2>4 DEF Charge, TypeOK
  <2> QED
    BY <2>2, <2>3, <2>4, Frames DEF Next, Serve, vars, serverVars
<1>5. ASSUME NEW q \in Streams
      PROVE  /\ pc'[q] # "done" => receipt'[q] = Nothing
             /\ pc'[q] = "done" /\ receipt'[q] # Nothing =>
                  /\ TickCost * paid'[q] <= receipt'[q].spent
                  /\ receipt'[q].spent <= receipt'[q].accepted
                  /\ receipt'[q].spent <= channel'.spent
  <2>0. /\ pc[q] # "done" => receipt[q] = Nothing
        /\ pc[q] = "done" /\ receipt[q] # Nothing =>
             /\ TickCost * paid[q] <= receipt[q].spent
             /\ receipt[q].spent <= receipt[q].accepted
             /\ receipt[q].spent <= channel.spent
        /\ receipt[q].spent \in Nat /\ TickCost * paid[q] \in Nat
        /\ TickCost * paid[q] <= channel.spent
    BY <1>0, OneMoreTick DEF Inv, NoReceiptYet, ReceiptAccounts, PaidIsSpent, TypeOK
  <2>1. CASE receipt'[q] = receipt[q] /\ pc'[q] # "done" /\ pc[q] # "done"
    BY <2>0, <2>1
  <2>2. CASE receipt'[q] = receipt[q] /\ pc'[q] = "done" /\ paid'[q] = paid[q]
             /\ (pc[q] = "done" \/ receipt'[q] = Nothing)
    BY <1>0, <2>0, <2>2 DEF ChannelStep
  <2>3. CASE receipt'[q] = FinalReceipt(channel) /\ pc'[q] = "done"
             /\ paid'[q] = paid[q] /\ channel' = channel
    <3>1. receipt'[q].spent = channel.spent /\ receipt'[q].accepted = channel.highest
      BY <2>3 DEF FinalReceipt
    <3> QED
      BY <1>0, <2>0, <2>3, <3>1 DEF SpentWithinVoucher
  <2>4. ASSUME NEW s \in Streams, Receipt(s)
        PROVE  \/ receipt'[q] = receipt[q] /\ pc'[q] = pc[q] /\ paid'[q] = paid[q]
               \/ receipt'[q] = receipt[q] /\ pc'[q] = "done" /\ paid'[q] = paid[q]
                  /\ pc[q] = "receipt"
               \/ receipt'[q] = FinalReceipt(channel) /\ pc'[q] = "done"
                  /\ paid'[q] = paid[q] /\ channel' = channel
    BY <1>0, <2>4 DEF Receipt, Go, TypeOK
  <2>5. ASSUME NEW s \in Streams, Serve(s) \/ Drop(s), ~Receipt(s)
        PROVE  /\ receipt'[q] = receipt[q]
               /\ pc'[q] = "done" <=> pc[q] = "done"
               /\ pc[q] = "done" => paid'[q] = paid[q]
    <3>1. CASE q # s
      BY <1>0, <2>5, <3>1, Frames
      DEF Serve, Pull, Charge, Ask, Listen, WakeOnUpdate, Poll, Emit, Drop, Go, TypeOK
    <3>2. CASE q = s
      BY <1>0, <2>5, <3>2, Frames
      DEF Serve, Pull, Charge, OnClosed, Ask, Listen, WakeOnUpdate, Poll, Resumed,
          Emit, Drop, Go, Running, TypeOK
    <3> QED
      BY <3>1, <3>2
  <2>6. CASE UNCHANGED <<receipt, pc, paid>>
    BY <2>1, <2>2, <2>6
  <2> QED
    BY <2>0, <2>1, <2>2, <2>3, <2>4, <2>5, <2>6, Frames DEF Next, vars, serverVars
<1> QED
  BY <1>1, <1>2, <1>3, <1>4, <1>5
  DEF EventsBounded, PaidIsSpent, NoReceiptYet, ReceiptAccounts

-----------------------------------------------------------------------------

\* Initially nothing has been produced, spent or asked.
LEMMA InitInv == Init => Inv
<1> SUFFICES ASSUME Init PROVE Inv
  OBVIOUS
<1>1. TypeOK
  BY StreamAssumption DEF Init, TypeOK, Running, Nothing
<1>2. EveryItemPaidOnce /\ NoItemSkipped
  BY StreamAssumption DEF Init, EveryItemPaidOnce, NoItemSkipped, InHand, Holding
<1>3. EventsBounded /\ SigningBounded /\ ExposureBounded /\ SpentWithinVoucher
  BY StreamAssumption
  DEF Init, EventsBounded, SigningBounded, ExposureBounded, SpentWithinVoucher, None
<1>4. PaidIsSpent /\ NoReceiptYet /\ ReceiptAccounts
  BY StreamAssumption DEF Init, PaidIsSpent, NoReceiptYet, ReceiptAccounts
<1> QED
  BY <1>1, <1>2, <1>3, <1>4 DEF Inv

\* The invariant holds in every behaviour.
LEMMA Invariance == Spec => []Inv
<1>1. Inv /\ [Next]_vars => Inv'
  BY TypeStep, ItemsStep, MoneyStep DEF Inv
<1> QED
  BY <1>1, InitInv, PTL DEF Spec

\* The state stays well typed, whatever order events and vouchers arrive in.
THEOREM TypeCorrect == Spec => []TypeOK
BY Invariance, PTL DEF Inv

\* Whatever fails and however often a stream waits, an item is paid for once.
THEOREM ItemsPaidOnce == Spec => []EveryItemPaidOnce
BY Invariance, PTL DEF Inv

\* A wait never loses the item it waits with.
THEOREM NothingSkipped == Spec => []NoItemSkipped
BY Invariance, PTL DEF Inv

\* The client's exposure is one item beyond what is spent, for any number of
\* streams over the channel and any delay of events and vouchers.
THEOREM ExposureIsBounded == Spec => []ExposureBounded
BY Invariance, PTL DEF Inv

\* A final receipt accounts for every item sent before it.
THEOREM ReceiptsAccount == Spec => []ReceiptAccounts
BY Invariance, PTL DEF Inv
==============================================================================
