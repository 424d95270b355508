------------------------- MODULE SessionProviderProofs -------------------------
(***************************************************************************)
(* Proofs about SessionProvider, for any number of keys, calls and amounts. *)
(*                                                                         *)
(* What holds however the calls overlap comes first: types, the count of   *)
(* calls and the bound it gives.  What holds of a client that makes one    *)
(* call after another comes second; there a busy call is the only one.     *)
(***************************************************************************)
EXTENDS SessionProvider, FiniteSetTheorems, TLAPS

-----------------------------------------------------------------------------
(* The invariants.                                                         *)

Call == [pc: Phases, kind: Kinds, key: Keys \cup {None},
         id: 0..MaxPays, cum: Nat, deposit: Nat \cup {None}]

Channel == [key: Keys \cup {None}, deposit: Nat, settled: Nat,
            known: BOOLEAN, highest: Nat, gone: BOOLEAN]

Vouchers == {"voucher", "recovered", "event"}

\* What a call is about has been filled in when it comes to it.
CallsPlaced ==
  \A p \in Calls :
    LET c == call[p] IN
    /\ c.pc # "idle" => c.key \in Keys
    /\ c.pc \notin {"idle", "open"} => c.id \in Ids
    /\ c.pc \in {"recover", "open"} => c.kind = "none"
    /\ c.kind = "open" => c.deposit # None
    /\ c.pc \notin {"idle", "recover", "open"} => c.kind # "none"

\* A payment that has not chosen its amount yet.
Undecided == {p \in Calls : call[p].pc \in {"recover", "open"}}

\* Every channel was made up by a pay of its own.
PaysCounted == opened + Cardinality(Undecided) <= pays

Typed == TypeOK /\ CallsPlaced /\ PaysCounted

\* How many calls have added to an amount: those that are undecided have not.
Deciding == pays + other - Cardinality(Undecided)

Earned == Amount * Deciding

\* No amount, wherever it is kept, is more than one Amount for each of them.
AmountsEarned ==
  /\ \A k \in Keys : registry[k].cum <= Earned
  /\ \A p \in Calls : call[p].cum <= Earned
  /\ \A i \in Ids : /\ authorised[i] <= Earned
                    /\ channel[i].highest <= Earned
                    /\ channel[i].settled <= Earned

DepositsCapped ==
  MaxDeposit # None =>
    /\ \A i \in Ids : channel[i].deposit <= MaxDeposit
    /\ \A p \in Calls : call[p].kind = "open" => call[p].deposit <= MaxDeposit

\* The server knows of no amount that was not signed.
VouchersSigned ==
  /\ \A i \in Ids : channel[i].highest <= authorised[i]
  /\ \A p \in Calls :
       call[p].pc = "sent" => call[p].cum <= authorised[call[p].id]

\* Two calls under way have raced.
OneBusy ==
  \A p, q \in Calls : p # q /\ call[p].pc # "idle" /\ call[q].pc # "idle" => raced

\* Nothing has come in between.
Calm == ~raced /\ ~restarted

\* The registry of a calm client knows each channel, once.
RegistryOwns ==
  /\ \A k \in Keys : registry[k].id <= opened
  /\ \A k, l \in Keys : registry[k].id = registry[l].id /\ registry[k].id # 0 => k = l
  /\ \A i \in Ids : channel[i].key # None => registry[channel[i].key].id = i
  /\ \A i \in Ids : i > opened => authorised[i] = 0
  /\ \A k \in Keys : registry[k].id # 0 => registry[k].cum >= authorised[registry[k].id]

\* A channel that is on record is known to its server, or its open was in vain, or
\* is on its way.
RegistryKnown ==
  \A k \in Keys : registry[k].id # 0 =>
    \/ channel[registry[k].id].known
    \/ registry[k].id \in strayed
    \/ \E p \in Calls : /\ call[p].pc = "sent" /\ call[p].kind = "open"
                        /\ call[p].id = registry[k].id

\* What the one call of a calm client relies on.
CallCurrent(p) ==
  LET c == call[p] IN
  /\ c.pc # "recover" /\ c.kind # "recovered"
  /\ c.pc = "open" => registry[c.key].id = 0
  /\ c.pc = "sign" /\ c.kind = "open" =>
       /\ registry[c.key].id = 0
       /\ c.id <= opened /\ authorised[c.id] = 0
       /\ \A k \in Keys : registry[k].id # c.id
  /\ c.pc = "sent" /\ c.kind = "open" => registry[c.key].id = c.id
  /\ c.pc \in {"sign", "sent"} /\ c.kind \in {"voucher", "event", "close"} =>
       /\ registry[c.key].id = c.id
       /\ channel[c.id].known \/ c.id \in strayed
       /\ c.kind = "voucher" => c.cum > channel[c.id].highest
       /\ c.kind = "close" => c.cum >= channel[c.id].highest
  /\ c.pc = "sign" /\ c.kind \in {"voucher", "event"} => c.cum >= registry[c.key].cum
  /\ c.pc = "sign" /\ c.kind = "close" => c.cum = registry[c.key].cum

CallsCurrent == \A p \in Calls : CallCurrent(p)

InOrder == RegistryOwns /\ RegistryKnown /\ CallsCurrent

CalmInv == Calm => InOrder

Inv ==
  /\ Typed /\ AmountsEarned /\ DepositsCapped /\ VouchersSigned
  /\ OneBusy /\ CalmInv /\ RefusedForCause

-----------------------------------------------------------------------------
(* Calls and their count.                                                  *)

\* Only the record of the call that acts is written.
LEMMA SetFacts ==
  ASSUME TypeOK, NEW p \in Calls, NEW r \in Call, Set(p, r)
  PROVE  /\ call' \in [Calls -> Call]
         /\ call'[p] = r
         /\ \A q \in Calls \ {p} : call'[q] = call[q]
BY DEF TypeOK, Set, Call

LEMMA NoCallFacts ==
  /\ NoCall \in Call
  /\ NoCall.pc = "idle" /\ NoCall.kind = "none" /\ NoCall.key = None
  /\ NoCall.id = 0 /\ NoCall.cum = 0 /\ NoCall.deposit = 0
BY ProviderAssumption DEF NoCall, Call, Phases, Kinds, None

\* What a typed state says of a call.
LEMMA CallFacts ==
  ASSUME Typed, NEW p \in Calls
  PROVE  /\ call[p] \in Call /\ call \in [Calls -> Call]
         /\ call[p].pc \in Phases /\ call[p].kind \in Kinds
         /\ call[p].key \in Keys \cup {None} /\ call[p].id \in 0..MaxPays
         /\ call[p].cum \in Nat /\ call[p].deposit \in Nat \cup {None}
         /\ call[p].pc # "idle" => call[p].key \in Keys
         /\ call[p].pc \notin {"idle", "open"} => call[p].id \in Ids
         /\ call[p].pc \in {"recover", "open"} => call[p].kind = "none"
         /\ call[p].kind = "open" => call[p].deposit \in Nat
         /\ call[p].pc \notin {"idle", "recover", "open"} => call[p].kind # "none"
<1>1. call \in [Calls -> Call]
  BY DEF Typed, TypeOK, Call
<1>2. call[p] \in Call
  BY <1>1
<1> QED
  BY <1>1, <1>2 DEF Typed, CallsPlaced, Call

\* The undecided calls are counted as one becomes undecided, or ceases to be.
LEMMA UndecidedCount ==
  ASSUME Typed, NEW p \in Calls, \A q \in Calls \ {p} : call'[q] = call[q]
  PROVE  /\ Cardinality(Undecided) \in Nat /\ Cardinality(Undecided') \in Nat
         /\ (p \in Undecided <=> p \in Undecided') =>
              Cardinality(Undecided') = Cardinality(Undecided)
         /\ p \notin Undecided /\ p \in Undecided' =>
              Cardinality(Undecided') = Cardinality(Undecided) + 1
         /\ p \in Undecided /\ p \notin Undecided' =>
              Cardinality(Undecided') = Cardinality(Undecided) - 1
<1>1. IsFiniteSet(Undecided) /\ IsFiniteSet(Undecided')
  BY ProviderAssumption, FS_Subset, Undecided \subseteq Calls, Undecided' \subseteq Calls
  DEF Undecided
<1>2. \A q \in Calls \ {p} : q \in Undecided <=> q \in Undecided'
  BY DEF Undecided
<1>3. Undecided \subseteq Calls /\ Undecided' \subseteq Calls
  BY DEF Undecided
<1>4. CASE p \in Undecided <=> p \in Undecided'
  <2>1. Undecided' = Undecided BY <1>2, <1>3, <1>4
  <2> QED BY <1>1, <1>4, <2>1, FS_CardinalityType
<1>5. CASE p \notin Undecided /\ p \in Undecided'
  <2>1. Undecided' = Undecided \cup {p} BY <1>2, <1>3, <1>5
  <2> QED BY <1>1, <1>5, <2>1, FS_CardinalityType, FS_AddElement
<1>6. CASE p \in Undecided /\ p \notin Undecided'
  <2>1. Undecided' = Undecided \ {p} BY <1>2, <1>3, <1>6
  <2> QED BY <1>1, <1>6, <2>1, FS_CardinalityType, FS_RemoveElement
<1> QED BY <1>4, <1>5, <1>6

\* A deposit that is resolved is an amount, within the cap when there is one.
LEMMA DepositResolved ==
  ASSUME NEW s \in Nat \cup {None}
  PROVE  /\ ResolveDeposit(s) \in Nat \cup {None}
         /\ ResolveDeposit(s) # None /\ MaxDeposit # None =>
              ResolveDeposit(s) <= MaxDeposit
BY ProviderAssumption DEF ResolveDeposit, Smaller, None

-----------------------------------------------------------------------------
(* What each action does to the call that acts.                            *)

Becomes(p, pc, kind, key, id, cum) ==
  /\ call' \in [Calls -> Call]
  /\ \A q \in Calls \ {p} : call'[q] = call[q]
  /\ call'[p].pc = pc /\ call'[p].kind = kind /\ call'[p].key = key
  /\ call'[p].id = id /\ call'[p].cum = cum

LEMMA GiveEffect ==
  ASSUME Typed, NEW p \in Calls, Give(p)
  PROVE  Becomes(p, "idle", "none", None, 0, 0)
BY SetFacts, NoCallFacts DEF Give, Becomes, Typed

\* Only the phase changes.
LEMMA PhaseEffect ==
  ASSUME Typed, NEW p \in Calls, NEW pc \in Phases, Set(p, [call[p] EXCEPT !.pc = pc])
  PROVE  /\ Becomes(p, pc, call[p].kind, call[p].key, call[p].id, call[p].cum)
         /\ call'[p].deposit = call[p].deposit
<1> DEFINE r == [call[p] EXCEPT !.pc = pc]
<1>1. /\ r \in Call /\ r.pc = pc /\ r.kind = call[p].kind /\ r.key = call[p].key
      /\ r.id = call[p].id /\ r.cum = call[p].cum /\ r.deposit = call[p].deposit
  BY CallFacts DEF Call
<1>2. Set(p, r)
  OBVIOUS
<1> HIDE DEF r
<1> QED BY <1>1, <1>2, SetFacts DEF Becomes, Typed

LEMMA PayEffect ==
  ASSUME Typed, NEW p \in Calls, PayStart(p)
  PROVE  /\ call[p].pc = "idle" /\ pays \in Nat /\ pays' = pays + 1 /\ pays' \in 0..MaxPays
         /\ \E k \in Keys :
              /\ last' = k
              /\ \/ /\ registry[k].id # 0
                    /\ Becomes(p, "sign", "voucher", k, registry[k].id, registry[k].cum + Amount)
                 \/ \E i \in Ids : /\ registry[k].id = 0 /\ channel[i].known /\ channel[i].key = k
                                   /\ Becomes(p, "recover", "none", k, i, 0)
                 \/ registry[k].id = 0 /\ Becomes(p, "open", "none", k, 0, 0)
<1>1. call[p].pc = "idle" /\ pays \in Nat /\ pays' = pays + 1 /\ pays' \in 0..MaxPays
  <2>1. pays \in Nat /\ pays <= MaxPays BY ProviderAssumption DEF Typed, TypeOK
  <2>2. call[p].pc = "idle" /\ pays' = pays + 1 /\ pays < MaxPays BY DEF PayStart
  <2> QED BY <2>1, <2>2, ProviderAssumption
<1>2. PICK k \in Keys, s \in Suggestions :
        /\ last' = k
        /\ \/ /\ registry[k].id # 0
              /\ Set(p, [NoCall EXCEPT !.pc = "sign", !.kind = "voucher", !.key = k,
                           !.id = registry[k].id, !.cum = NextCum(registry[k].cum)])
           \/ /\ registry[k].id = 0 /\ ~precompile
              /\ \E i \in Ids :
                   /\ channel[i].known /\ channel[i].key = k
                   /\ Set(p, [NoCall EXCEPT !.pc = "recover", !.key = k, !.id = i,
                                !.deposit = s])
           \/ /\ registry[k].id = 0
              /\ Set(p, [NoCall EXCEPT !.pc = "open", !.key = k, !.deposit = s])
  BY DEF PayStart
<1>3. /\ registry[k].id \in 0..MaxPays /\ registry[k].cum + Amount \in Nat
      /\ s \in Nat \cup {None}
  BY ProviderAssumption DEF Typed, TypeOK
<1>4. ASSUME registry[k].id # 0,
             Set(p, [NoCall EXCEPT !.pc = "sign", !.kind = "voucher", !.key = k,
                       !.id = registry[k].id, !.cum = NextCum(registry[k].cum)])
      PROVE  Becomes(p, "sign", "voucher", k, registry[k].id, registry[k].cum + Amount)
  <2> DEFINE r == [NoCall EXCEPT !.pc = "sign", !.kind = "voucher", !.key = k,
                     !.id = registry[k].id, !.cum = NextCum(registry[k].cum)]
  <2>1. /\ r \in Call /\ r.pc = "sign" /\ r.kind = "voucher" /\ r.key = k
        /\ r.id = registry[k].id /\ r.cum = registry[k].cum + Amount
    BY <1>3, ProviderAssumption DEF NoCall, Call, Phases, Kinds, NextCum, None
  <2> HIDE DEF r
  <2> QED BY <1>4, <2>1, SetFacts DEF Becomes, Typed, r
<1>5. ASSUME NEW i \in Ids,
             Set(p, [NoCall EXCEPT !.pc = "recover", !.key = k, !.id = i, !.deposit = s])
      PROVE  Becomes(p, "recover", "none", k, i, 0)
  <2> DEFINE r == [NoCall EXCEPT !.pc = "recover", !.key = k, !.id = i, !.deposit = s]
  <2>1. /\ r \in Call /\ r.pc = "recover" /\ r.kind = "none" /\ r.key = k
        /\ r.id = i /\ r.cum = 0
    <3>1. i \in 0..MaxPays BY ProviderAssumption DEF Ids
    <3> QED BY <1>3, <3>1, NoCallFacts DEF Call, Phases
  <2> HIDE DEF r
  <2> QED BY <1>5, <2>1, SetFacts DEF Becomes, Typed, r
<1>6. ASSUME Set(p, [NoCall EXCEPT !.pc = "open", !.key = k, !.deposit = s])
      PROVE  Becomes(p, "open", "none", k, 0, 0)
  <2> DEFINE r == [NoCall EXCEPT !.pc = "open", !.key = k, !.deposit = s]
  <2>1. /\ r \in Call /\ r.pc = "open" /\ r.kind = "none" /\ r.key = k
        /\ r.id = 0 /\ r.cum = 0
    <3> QED BY <1>3, NoCallFacts DEF Call, Phases
  <2> HIDE DEF r
  <2> QED BY <1>6, <2>1, SetFacts DEF Becomes, Typed, r
<1> QED BY <1>1, <1>2, <1>4, <1>5, <1>6

LEMMA RecoverEffect ==
  ASSUME Typed, NEW p \in Calls, Recover(p)
  PROVE  /\ call[p].pc = "recover" /\ call[p].id \in Ids
         /\ \/ Becomes(p, "sign", "recovered", call[p].key, call[p].id,
                       channel[call[p].id].settled + Amount)
            \/ Becomes(p, "open", "none", call[p].key, 0, call[p].cum)
<1>1. call[p].pc = "recover" /\ call[p].id \in Ids /\ call[p].kind = "none"
  BY CallFacts DEF Recover
<1>2. channel[call[p].id].settled + Amount \in Nat
  BY <1>1, ProviderAssumption DEF Typed, TypeOK
<1>3. ASSUME Set(p, [call[p] EXCEPT !.pc = "sign", !.kind = "recovered",
                       !.cum = NextCum(channel[call[p].id].settled)])
      PROVE  Becomes(p, "sign", "recovered", call[p].key, call[p].id,
                     channel[call[p].id].settled + Amount)
  <2> DEFINE r == [call[p] EXCEPT !.pc = "sign", !.kind = "recovered",
                     !.cum = NextCum(channel[call[p].id].settled)]
  <2>1. /\ r \in Call /\ r.pc = "sign" /\ r.kind = "recovered" /\ r.key = call[p].key
        /\ r.id = call[p].id /\ r.cum = channel[call[p].id].settled + Amount
    BY <1>2, CallFacts DEF Call, Phases, Kinds, NextCum
  <2> HIDE DEF r
  <2> QED BY <1>3, <2>1, SetFacts DEF Becomes, Typed, r
<1>4. ASSUME Set(p, [call[p] EXCEPT !.pc = "open", !.id = 0])
      PROVE  Becomes(p, "open", "none", call[p].key, 0, call[p].cum)
  <2> DEFINE r == [call[p] EXCEPT !.pc = "open", !.id = 0]
  <2>1. /\ r \in Call /\ r.pc = "open" /\ r.kind = "none" /\ r.key = call[p].key
        /\ r.id = 0 /\ r.cum = call[p].cum
    <3>1. call[p] \in Call BY CallFacts
    <3>2. 0 \in 0..MaxPays BY ProviderAssumption
    <3> QED BY <1>1, <3>1, <3>2 DEF Call, Phases
  <2> HIDE DEF r
  <2> QED BY <1>4, <2>1, SetFacts DEF Becomes, Typed, r
<1> QED BY <1>1, <1>3, <1>4 DEF Recover

\* Either contract opens the next channel with the same record, or gives up.
LEMMA OpenEffect ==
  ASSUME Typed, NEW p \in Calls, OpenContract(p) \/ OpenPrecompile(p)
  PROVE  /\ call[p].pc = "open" /\ call[p].key \in Keys
         /\ \/ /\ opened' = opened + 1 /\ opened' \in Ids
               /\ Becomes(p, "sign", "open", call[p].key, opened', Amount)
               /\ call'[p].deposit \in Nat
               /\ MaxDeposit # None => call'[p].deposit <= MaxDeposit
            \/ /\ opened' = opened
               /\ Becomes(p, "idle", "none", None, 0, 0)
<1>1. call[p].pc = "open" /\ call[p].key \in Keys /\ call[p].deposit \in Nat \cup {None}
  BY CallFacts DEF OpenContract, OpenPrecompile
<1>2. opened + 1 \in Ids
  <2>1. p \in Undecided BY <1>1 DEF Undecided
  <2>2. IsFiniteSet(Undecided)
    BY ProviderAssumption, FS_Subset, Undecided \subseteq Calls DEF Undecided
  <2>3. Cardinality(Undecided) \in Nat /\ Cardinality(Undecided) # 0
    BY <2>1, <2>2, FS_CardinalityType, FS_EmptySet
  <2> QED BY <2>3, ProviderAssumption DEF Typed, PaysCounted, TypeOK, Ids
<1> DEFINE d == ResolveDeposit(call[p].deposit)
<1>3. d \in Nat \cup {None} /\ (d # None /\ MaxDeposit # None => d <= MaxDeposit)
  BY <1>1, DepositResolved
<1>4. ASSUME d # None,
             Set(p, [call[p] EXCEPT !.pc = "sign", !.kind = "open", !.id = opened + 1,
                       !.cum = Amount, !.deposit = d])
      PROVE  /\ Becomes(p, "sign", "open", call[p].key, opened + 1, Amount)
             /\ call'[p].deposit \in Nat
             /\ MaxDeposit # None => call'[p].deposit <= MaxDeposit
  <2> DEFINE r == [call[p] EXCEPT !.pc = "sign", !.kind = "open", !.id = opened + 1,
                     !.cum = Amount, !.deposit = d]
  <2> HIDE DEF d
  <2>1. /\ r \in Call /\ r.pc = "sign" /\ r.kind = "open" /\ r.key = call[p].key
        /\ r.id = opened + 1 /\ r.cum = Amount /\ r.deposit = d
    <3>1. call[p] \in Call BY CallFacts
    <3>2. opened + 1 \in 0..MaxPays BY <1>2, ProviderAssumption DEF Ids
    <3>3. Amount \in Nat BY ProviderAssumption
    <3> QED BY <1>3, <3>1, <3>2, <3>3 DEF Call, Phases, Kinds
  <2> HIDE DEF r
  <2> QED BY <1>3, <1>4, <2>1, SetFacts DEF Becomes, Typed, r
<1>5. \/ /\ d # None /\ opened' = opened + 1
         /\ Set(p, [call[p] EXCEPT !.pc = "sign", !.kind = "open", !.id = opened + 1,
                      !.cum = Amount, !.deposit = d])
      \/ Give(p) /\ opened' = opened
  BY DEF OpenContract, OpenPrecompile
<1> HIDE DEF d
<1> QED BY <1>1, <1>2, <1>4, <1>5, GiveEffect

\* A credential goes out for what its call had decided.
Signed(p) ==
  /\ Becomes(p, "sent", call[p].kind, call[p].key, call[p].id, call[p].cum)
  /\ call'[p].deposit = call[p].deposit
  /\ Authorise(p)

GivenUp(p) == Becomes(p, "idle", "none", None, 0, 0) /\ UNCHANGED authorised

\* A voucher and an open are put on record as they are signed.
LEMMA SignEffect ==
  ASSUME Typed, NEW p \in Calls, SignVoucher(p) \/ SignOpen(p)
  PROVE  /\ call[p].pc = "sign" /\ call[p].kind \in Vouchers \cup {"open"}
         /\ call[p].key \in Keys /\ call[p].id \in Ids
         /\ \/ /\ Signed(p) /\ registry' = Record(p)
               /\ \/ idToKey' = idToKey
                  \/ idToKey' = [idToKey EXCEPT ![call[p].id] = call[p].key]
            \/ GivenUp(p) /\ UNCHANGED <<registry, idToKey>>
<1>1. /\ call[p].pc = "sign" /\ call[p].kind \in Vouchers \cup {"open"}
      /\ call[p].key \in Keys /\ call[p].id \in Ids
  BY CallFacts DEF SignVoucher, SignOpen, Vouchers
<1>2. /\ \/ idToKey' = idToKey
         \/ idToKey' = [idToKey EXCEPT ![call[p].id] = call[p].key]
      /\ \/ /\ Set(p, [call[p] EXCEPT !.pc = "sent"]) /\ Authorise(p)
            /\ registry' = Record(p)
         \/ Give(p) /\ UNCHANGED <<registry, idToKey, authorised>>
  BY DEF SignVoucher, SignOpen
<1>3. "sent" \in Phases BY DEF Phases
<1> QED BY <1>1, <1>2, <1>3, PhaseEffect, GiveEffect DEF Signed, GivenUp

LEMMA SignCloseEffect ==
  ASSUME Typed, NEW p \in Calls, SignClose(p)
  PROVE  /\ call[p].pc = "sign" /\ call[p].kind = "close"
         /\ call[p].key \in Keys /\ call[p].id \in Ids
         /\ Signed(p) \/ GivenUp(p)
<1>1. "sent" \in Phases BY DEF Phases
<1> QED BY <1>1, CallFacts, PhaseEffect, GiveEffect DEF SignClose, Signed, GivenUp

LEMMA EventEffect ==
  ASSUME Typed, NEW p \in Calls, EventStart(p)
  PROVE  /\ call[p].pc = "idle" /\ other \in Nat /\ other' = other + 1 /\ other' \in 0..MaxOther
         /\ \E i \in Ids :
              /\ channel[i].known /\ last \in Keys /\ registry[last].id = i
              /\ \E required \in Nat :
                   /\ required <= channel[i].highest + Amount
                   /\ Becomes(p, "sign", "event", last, i, Larger(required, registry[last].cum))
<1>1. call[p].pc = "idle" /\ other \in Nat /\ other' = other + 1 /\ other' \in 0..MaxOther
  <2>1. other \in Nat /\ other <= MaxOther BY ProviderAssumption DEF Typed, TypeOK
  <2>2. call[p].pc = "idle" /\ other' = other + 1 /\ other < MaxOther BY DEF EventStart
  <2> QED BY <2>1, <2>2, ProviderAssumption
<1>2. PICK i \in Ids :
        /\ channel[i].known
        /\ idToKey[i] # None /\ idToKey[i] = last
        /\ registry[last].id = i
        /\ \E required \in 1..NextCum(channel[i].highest) :
             Set(p, [NoCall EXCEPT !.pc = "sign", !.kind = "event", !.key = last, !.id = i,
                       !.cum = EventCum(required, registry[last].cum)])
  BY DEF EventStart
<1>3. PICK required \in 1..NextCum(channel[i].highest) :
        Set(p, [NoCall EXCEPT !.pc = "sign", !.kind = "event", !.key = last, !.id = i,
                  !.cum = EventCum(required, registry[last].cum)])
  BY <1>2
<1>4. channel[i].highest \in Nat /\ Amount \in Nat
  BY ProviderAssumption DEF Typed, TypeOK
<1>5. required \in Nat /\ required <= channel[i].highest + Amount
  BY <1>3, <1>4 DEF NextCum
<1>6. last \in Keys
  BY <1>2 DEF Typed, TypeOK
<1>7. registry[last].cum \in Nat
  BY <1>6 DEF Typed, TypeOK
<1>8. Becomes(p, "sign", "event", last, i, Larger(required, registry[last].cum))
  <2> DEFINE r == [NoCall EXCEPT !.pc = "sign", !.kind = "event", !.key = last, !.id = i,
                     !.cum = EventCum(required, registry[last].cum)]
  <2>1. Larger(required, registry[last].cum) \in Nat
    BY <1>5, <1>7 DEF Larger
  <2>2. i \in 0..MaxPays BY ProviderAssumption DEF Ids
  <2>3. /\ r \in Call /\ r.pc = "sign" /\ r.kind = "event" /\ r.key = last
        /\ r.id = i /\ r.cum = Larger(required, registry[last].cum)
    BY <1>6, <2>1, <2>2, NoCallFacts DEF Call, Phases, Kinds, EventCum
  <2> HIDE DEF r
  <2> QED BY <1>3, <2>3, SetFacts DEF Becomes, Typed, r
<1> QED BY <1>1, <1>2, <1>5, <1>6, <1>8

LEMMA CloseEffect ==
  ASSUME Typed, NEW p \in Calls, CloseStart(p)
  PROVE  /\ call[p].pc = "idle" /\ other \in Nat /\ other' = other + 1 /\ other' \in 0..MaxOther
         /\ last \in Keys /\ registry[last].id \in Ids
         /\ Becomes(p, "sign", "close", last, registry[last].id, registry[last].cum)
<1>1. call[p].pc = "idle" /\ other \in Nat /\ other' = other + 1 /\ other' \in 0..MaxOther
  <2>1. other \in Nat /\ other <= MaxOther BY ProviderAssumption DEF Typed, TypeOK
  <2>2. call[p].pc = "idle" /\ other' = other + 1 /\ other < MaxOther BY DEF CloseStart
  <2> QED BY <2>1, <2>2, ProviderAssumption
<1>2. last \in Keys BY DEF CloseStart, Typed, TypeOK
<1>3. registry[last].id \in 0..MaxPays /\ registry[last].id # 0 /\ registry[last].cum \in Nat
  BY <1>2 DEF CloseStart, Typed, TypeOK
<1>4. registry[last].id \in Ids
  BY <1>3, ProviderAssumption DEF Ids
<1>5. Becomes(p, "sign", "close", last, registry[last].id, registry[last].cum)
  <2> DEFINE r == [NoCall EXCEPT !.pc = "sign", !.kind = "close", !.key = last,
                     !.id = registry[last].id, !.cum = registry[last].cum]
  <2>1. /\ r \in Call /\ r.pc = "sign" /\ r.kind = "close" /\ r.key = last
        /\ r.id = registry[last].id /\ r.cum = registry[last].cum
    BY <1>2, <1>3, NoCallFacts DEF Call, Phases, Kinds
  <2>2. Set(p, r) BY DEF CloseStart
  <2> HIDE DEF r
  <2> QED BY <2>1, <2>2, SetFacts DEF Becomes, Typed
<1> QED BY <1>1, <1>2, <1>4, <1>5

\* The channel a credential has reached, and what the server makes of it.
LEMMA ArriveEffect ==
  ASSUME Typed, NEW p \in Calls, Arrive(p)
  PROVE  LET i == call[p].id
             c == channel'[i]
         IN
         /\ call[p].pc = "sent" /\ i \in Ids /\ call[p].key \in Keys
         /\ channel' \in [Ids -> Channel]
         /\ \A j \in Ids \ {i} : channel'[j] = channel[j]
         /\ \E pc \in {"accepted", "refused"} :
              /\ Becomes(p, pc, call[p].kind, call[p].key, i, call[p].cum)
              /\ call'[p].deposit = call[p].deposit
              /\ \/ /\ call[p].kind = "open"
                    /\ c.key = call[p].key /\ c.deposit = call[p].deposit /\ c.settled = 0
                    /\ c.highest \in {0, call[p].cum}
                    /\ \/ c.known /\ pc = "accepted" /\ UNCHANGED strayed
                       \/ pc = "refused" /\ strayed' = strayed \cup {i}
                 \/ /\ call[p].kind \in Vouchers /\ UNCHANGED strayed
                    /\ c.key = channel[i].key /\ c.deposit = channel[i].deposit
                    /\ c.settled = channel[i].settled /\ c.known = channel[i].known
                    /\ c.gone = channel[i].gone
                    /\ \/ pc = "accepted" /\ c.highest = call[p].cum
                       \/ /\ pc = "refused" /\ c = channel[i]
                          /\ ~VoucherAcceptable(channel[i], call[p].cum)
                 \/ /\ call[p].kind = "close" /\ UNCHANGED strayed
                    /\ c.key = channel[i].key /\ c.deposit = channel[i].deposit
                    /\ c.highest = channel[i].highest /\ c.known = channel[i].known
                    /\ \/ pc = "accepted" /\ c.settled = call[p].cum
                       \/ /\ pc = "refused" /\ c = channel[i]
                          /\ ~CloseAcceptable(channel[i], call[p].cum)
                               \/ call[p].cum < channel[i].highest
<1> DEFINE i == call[p].id
           cum == call[p].cum
<1>1. /\ call[p].pc = "sent" /\ i \in Ids /\ call[p].key \in Keys /\ cum \in Nat
      /\ call[p].kind \in Kinds
  BY CallFacts DEF Arrive
<1>2. channel \in [Ids -> Channel] /\ channel[i] \in Channel
  BY <1>1 DEF Typed, TypeOK, Channel
<1>3. ASSUME NEW ok \in BOOLEAN, Answer(p, ok)
      PROVE  LET pc == IF ok THEN "accepted" ELSE "refused"
             IN /\ Becomes(p, pc, call[p].kind, call[p].key, i, cum)
                /\ call'[p].deposit = call[p].deposit
  BY <1>3, PhaseEffect DEF Answer, Phases
<1>4. ASSUME NEW c \in Channel, channel' = [channel EXCEPT ![i] = c]
      PROVE  /\ channel' \in [Ids -> Channel] /\ channel'[i] = c
             /\ \A j \in Ids \ {i} : channel'[j] = channel[j]
  BY <1>1, <1>2, <1>4
<1>5. CASE /\ call[p].kind = "open"
           /\ channel' = [channel EXCEPT ![i] =
                [NoChannel EXCEPT !.key = call[p].key, !.deposit = call[p].deposit,
                   !.known = Openable(p), !.highest = IF Openable(p) THEN cum ELSE 0]]
           /\ strayed' = IF Openable(p) THEN strayed ELSE strayed \cup {i}
           /\ Answer(p, Openable(p))
  <2> DEFINE c == [NoChannel EXCEPT !.key = call[p].key, !.deposit = call[p].deposit,
                     !.known = Openable(p), !.highest = IF Openable(p) THEN cum ELSE 0]
  <2>1. call[p].deposit \in Nat BY <1>5, CallFacts
  <2>2. Openable(p) \in BOOLEAN BY DEF Openable
  <2>3. /\ c \in Channel /\ c.key = call[p].key /\ c.deposit = call[p].deposit
        /\ c.settled = 0 /\ c.highest \in {0, cum} /\ c.known = Openable(p)
    BY <1>1, <2>1, <2>2 DEF NoChannel, Channel
  <2> HIDE DEF c
  <2>4. /\ channel' \in [Ids -> Channel] /\ channel'[i] = c
        /\ \A j \in Ids \ {i} : channel'[j] = channel[j]
    BY <1>4, <1>5, <2>3 DEF c
  <2>5. CASE Openable(p)
    <3>1. Answer(p, TRUE) /\ c.known /\ UNCHANGED strayed BY <1>5, <2>3, <2>5
    <3> QED BY <1>1, <1>3, <1>5, <2>3, <2>4, <3>1
  <2>6. CASE ~Openable(p)
    <3>1. Answer(p, FALSE) /\ strayed' = strayed \cup {i}
      BY <1>5, <2>6 DEF Answer
    <3> QED BY <1>1, <1>3, <1>5, <2>3, <2>4, <3>1
  <2> QED BY <2>5, <2>6
<1>6. CASE /\ call[p].kind \in Vouchers
           /\ channel' = IF VoucherAcceptable(channel[i], cum)
                THEN [channel EXCEPT ![i].highest = cum] ELSE channel
           /\ Answer(p, VoucherAcceptable(channel[i], cum))
           /\ UNCHANGED strayed
  <2>1. CASE VoucherAcceptable(channel[i], cum)
    <3> DEFINE c == [channel[i] EXCEPT !.highest = cum]
    <3>1. /\ c \in Channel /\ c.key = channel[i].key /\ c.deposit = channel[i].deposit
          /\ c.settled = channel[i].settled /\ c.known = channel[i].known
          /\ c.gone = channel[i].gone /\ c.highest = cum
      BY <1>1, <1>2 DEF Channel
    <3>2. channel' = [channel EXCEPT ![i] = c]
      BY <1>1, <1>2, <1>6, <2>1, channel' = [channel EXCEPT ![i].highest = cum]
    <3> HIDE DEF c
    <3>3. Answer(p, TRUE) BY <1>6, <2>1
    <3> QED BY <1>1, <1>3, <1>4, <1>6, <3>1, <3>2, <3>3
  <2>2. CASE ~VoucherAcceptable(channel[i], cum)
    <3>1. Answer(p, FALSE) /\ channel' = channel
      BY <1>6, <2>2 DEF Answer
    <3> QED BY <1>1, <1>2, <1>3, <1>6, <2>2, <3>1
  <2> QED BY <2>1, <2>2
<1>7. CASE /\ call[p].kind = "close" /\ UNCHANGED strayed
           /\ channel' = [channel EXCEPT ![i].gone = TRUE, ![i].settled = cum]
           /\ Answer(p, TRUE)
  <2> DEFINE c == [channel[i] EXCEPT !.gone = TRUE, !.settled = cum]
  <2>1. /\ c \in Channel /\ c.key = channel[i].key /\ c.deposit = channel[i].deposit
        /\ c.highest = channel[i].highest /\ c.known = channel[i].known /\ c.settled = cum
    BY <1>1, <1>2 DEF Channel
  <2> DEFINE d == [channel[i] EXCEPT !.gone = TRUE]
             mid == [channel EXCEPT ![i] = d]
  <2>2. d \in Channel /\ c = [d EXCEPT !.settled = cum]
    BY <1>2 DEF Channel
  <2>3. mid \in [Ids -> Channel] /\ mid[i] = d /\ \A j \in Ids \ {i} : mid[j] = channel[j]
    BY <1>1, <1>2, <2>2
  <2>4. channel' = [mid EXCEPT ![i].settled = cum]
    BY <1>7
  <2> HIDE DEF d, mid
  <2>5. channel' = [mid EXCEPT ![i] = [d EXCEPT !.settled = cum]]
    BY <2>3, <2>4
  <2> HIDE DEF c
  <2>6. /\ channel' \in [Ids -> Channel] /\ channel'[i] = c
        /\ \A j \in Ids \ {i} : channel'[j] = channel[j]
    BY <1>1, <2>1, <2>2, <2>3, <2>5
  <2> QED BY <1>1, <1>3, <1>7, <2>1, <2>6
<1>8. CASE /\ call[p].kind = "close" /\ UNCHANGED <<channel, strayed>>
           /\ ~CloseAcceptable(channel[i], cum) \/ cum < channel[i].highest
           /\ Answer(p, FALSE)
  BY <1>1, <1>2, <1>3, <1>8
<1> QED BY <1>5, <1>6, <1>7, <1>8 DEF Arrive, Vouchers

LEMMA ReturnEffect ==
  ASSUME Typed, NEW p \in Calls, Return(p) \/ Lose(p)
  PROVE  /\ Becomes(p, "idle", "none", None, 0, 0)
         /\ call[p].pc \in {"sent", "accepted", "refused"} /\ call[p].id \in Ids
         /\ strayed \subseteq strayed' /\ strayed' \subseteq strayed \cup {call[p].id}
         /\ call[p].pc = "sent" /\ call[p].kind = "open" => call[p].id \in strayed'
BY GiveEffect, CallFacts DEF Return, Lose, historyVars

-----------------------------------------------------------------------------
(* Types, and the count of calls.                                          *)

\* It is enough to look at the call that acts.
LEMMA PlacedAfter ==
  ASSUME Typed, NEW p \in Calls, \A q \in Calls \ {p} : call'[q] = call[q],
         call'[p].pc # "idle" => call'[p].key \in Keys,
         call'[p].pc \notin {"idle", "open"} => call'[p].id \in Ids,
         call'[p].pc \in {"recover", "open"} => call'[p].kind = "none",
         call'[p].kind = "open" => call'[p].deposit # None,
         call'[p].pc \notin {"idle", "recover", "open"} => call'[p].kind # "none"
  PROVE  CallsPlaced'
BY DEF Typed, CallsPlaced

\* A call that stays decided, or undecided, is not counted.
LEMMA SameCount ==
  ASSUME Typed, NEW p \in Calls, \A q \in Calls \ {p} : call'[q] = call[q],
         call[p].pc \in {"recover", "open"} <=> call'[p].pc \in {"recover", "open"}
  PROVE  Cardinality(Undecided') = Cardinality(Undecided) /\ Cardinality(Undecided) \in Nat
<1>1. p \in Undecided <=> p \in Undecided'
  BY DEF Undecided
<1> QED BY <1>1, UndecidedCount

LEMMA OneLess ==
  ASSUME Typed, NEW p \in Calls, \A q \in Calls \ {p} : call'[q] = call[q],
         call[p].pc \in {"recover", "open"}, call'[p].pc \notin {"recover", "open"}
  PROVE  /\ Cardinality(Undecided') = Cardinality(Undecided) - 1
         /\ Cardinality(Undecided) \in Nat
<1>1. p \in Undecided /\ p \notin Undecided'
  BY DEF Undecided
<1> QED BY <1>1, UndecidedCount

LEMMA OneMore ==
  ASSUME Typed, NEW p \in Calls, \A q \in Calls \ {p} : call'[q] = call[q],
         call[p].pc \notin {"recover", "open"}, call'[p].pc \in {"recover", "open"}
  PROVE  /\ Cardinality(Undecided') = Cardinality(Undecided) + 1
         /\ Cardinality(Undecided) \in Nat
<1>1. p \notin Undecided /\ p \in Undecided'
  BY DEF Undecided
<1> QED BY <1>1, UndecidedCount

\* The numbers that are counted with.
LEMMA CountTypes ==
  ASSUME Typed
  PROVE  /\ opened \in Nat /\ opened <= MaxPays /\ pays \in Nat /\ pays <= MaxPays
         /\ other \in Nat /\ other <= MaxOther
         /\ Cardinality(Undecided) \in Nat /\ opened + Cardinality(Undecided) <= pays
<1>1. IsFiniteSet(Undecided)
  BY ProviderAssumption, FS_Subset, Undecided \subseteq Calls DEF Undecided
<1>2. Cardinality(Undecided) \in Nat
  BY <1>1, FS_CardinalityType
<1> QED BY <1>2, ProviderAssumption DEF Typed, TypeOK, PaysCounted

LEMMA InitTyped == Init => Typed
<1> SUFFICES ASSUME Init PROVE Typed
  OBVIOUS
<1>1. call \in [Calls -> Call] /\ \A p \in Calls : call[p] = NoCall
  BY NoCallFacts DEF Init
<1>2. channel \in [Ids -> Channel]
  BY DEF Init, NoChannel, Channel
<1>3. registry \in [Keys -> [id: 0..MaxPays, cum: Nat]]
  BY ProviderAssumption DEF Init, NoEntry
<1>4. TypeOK
  <2>1. 0 \in 0..MaxPays /\ 0 \in 0..MaxOther
    BY ProviderAssumption
  <2> QED BY <1>1, <1>2, <1>3, <2>1 DEF Init, TypeOK, Call, Channel
<1>5. CallsPlaced
  BY <1>1, NoCallFacts DEF CallsPlaced
<1>6. Undecided = {}
  BY <1>1, NoCallFacts DEF Undecided
<1>7. PaysCounted
  BY <1>6, FS_EmptySet DEF Init, PaysCounted
<1> QED BY <1>4, <1>5, <1>7 DEF Typed

LEMMA StartTyped ==
  ASSUME Typed, NEW p \in Calls, PayStart(p) \/ EventStart(p) \/ CloseStart(p)
  PROVE  Typed'
<1>1. CASE PayStart(p)
  <2>1. PICK k \in Keys :
          /\ last' = k
          /\ \/ /\ registry[k].id # 0
                /\ Becomes(p, "sign", "voucher", k, registry[k].id, registry[k].cum + Amount)
             \/ \E i \in Ids : Becomes(p, "recover", "none", k, i, 0)
             \/ Becomes(p, "open", "none", k, 0, 0)
    BY <1>1, PayEffect
  <2>2. call[p].pc = "idle" /\ pays' = pays + 1 /\ pays' \in 0..MaxPays
    BY <1>1, PayEffect
  <2>3. registry[k].id \in 0..MaxPays
    BY DEF Typed, TypeOK
  <2>4. CallsPlaced'
    BY <2>1, <2>3, PlacedAfter, ProviderAssumption DEF Becomes, Ids
  <2>5. TypeOK'
    BY <1>1, <2>1, <2>2 DEF PayStart, Becomes, Typed, TypeOK, Call
  <2>6. Cardinality(Undecided') <= Cardinality(Undecided) + 1
        /\ Cardinality(Undecided') \in Nat
    BY <2>1, UndecidedCount DEF Becomes
  <2>7. PaysCounted'
    <3>1. opened' = opened BY <1>1 DEF PayStart
    <3> QED BY <2>2, <2>6, <3>1, CountTypes DEF PaysCounted
  <2> QED BY <2>4, <2>5, <2>7 DEF Typed
<1>2. ASSUME NEW kind \in {"event", "close"}, NEW key \in Keys, NEW i \in Ids, NEW cum,
             call[p].pc = "idle", other' \in 0..MaxOther,
             Becomes(p, "sign", kind, key, i, cum),
             UNCHANGED <<precompile, registry, idToKey, last, opened, pays, channel,
                         authorised, restarted, strayed>>,
             raced' = (raced \/ Busy)
      PROVE  Typed'
  <2>1. CallsPlaced'
    BY <1>2, PlacedAfter DEF Becomes
  <2>2. TypeOK'
    BY <1>2 DEF Becomes, Typed, TypeOK, Call, Busy
  <2>3. PaysCounted'
    BY <1>2, SameCount, CountTypes DEF PaysCounted, Becomes
  <2> QED BY <2>1, <2>2, <2>3 DEF Typed
<1>3. CASE EventStart(p)
  BY <1>2, <1>3, EventEffect DEF EventStart
<1>4. CASE CloseStart(p)
  BY <1>2, <1>4, CloseEffect DEF CloseStart
<1> QED BY <1>1, <1>3, <1>4

LEMMA DecideTyped ==
  ASSUME Typed, NEW p \in Calls, Recover(p) \/ OpenContract(p) \/ OpenPrecompile(p)
  PROVE  Typed'
<1>1. CASE Recover(p)
  <2>1. /\ call[p].pc = "recover" /\ call[p].key \in Keys /\ call[p].id \in Ids
        /\ \/ Becomes(p, "sign", "recovered", call[p].key, call[p].id,
                      channel[call[p].id].settled + Amount)
           \/ Becomes(p, "open", "none", call[p].key, 0, call[p].cum)
    BY <1>1, RecoverEffect, CallFacts
  <2>2. CallsPlaced'
    BY <2>1, PlacedAfter DEF Becomes
  <2>3. TypeOK'
    <3>1. call' \in [Calls -> Call] BY <2>1 DEF Becomes
    <3>2. UNCHANGED <<clientVars, channel, historyVars>> BY <1>1 DEF Recover
    <3> QED BY <3>1, <3>2 DEF Typed, TypeOK, Call, clientVars, historyVars
  <2>4. Cardinality(Undecided') <= Cardinality(Undecided) /\ Cardinality(Undecided') \in Nat
    <3>1. CASE call'[p].pc = "sign"
      <4>1. Cardinality(Undecided') = Cardinality(Undecided) - 1
        BY <2>1, <3>1, OneLess DEF Becomes
      <4> QED BY <4>1, CountTypes, UndecidedCount, <2>1 DEF Becomes
    <3>2. CASE call'[p].pc = "open"
      BY <2>1, <3>2, SameCount DEF Becomes
    <3> QED BY <2>1, <3>1, <3>2 DEF Becomes
  <2>5. PaysCounted'
    <3>1. opened' = opened /\ pays' = pays BY <1>1 DEF Recover, clientVars
    <3> QED BY <2>4, <3>1, CountTypes DEF PaysCounted
  <2> QED BY <2>2, <2>3, <2>5 DEF Typed
<1>2. CASE OpenContract(p) \/ OpenPrecompile(p)
  <2>1. /\ call[p].pc = "open" /\ call[p].key \in Keys
        /\ \/ /\ opened' = opened + 1 /\ opened' \in Ids
              /\ Becomes(p, "sign", "open", call[p].key, opened', Amount)
              /\ call'[p].deposit \in Nat
           \/ /\ opened' = opened
              /\ Becomes(p, "idle", "none", None, 0, 0)
    BY <1>2, OpenEffect
  <2>2. UNCHANGED <<precompile, registry, idToKey, last, pays, other, channel, historyVars>>
    BY <1>2 DEF OpenContract, OpenPrecompile
  <2>3. CallsPlaced'
    <3>1. CASE Becomes(p, "idle", "none", None, 0, 0)
      BY <3>1, PlacedAfter DEF Becomes
    <3>2. CASE /\ Becomes(p, "sign", "open", call[p].key, opened', Amount)
               /\ opened' \in Ids /\ call'[p].deposit \in Nat
      <4>1. call'[p].deposit # None BY <3>2 DEF None
      <4> QED BY <2>1, <3>2, <4>1, PlacedAfter DEF Becomes
    <3> QED BY <2>1, <3>1, <3>2
  <2>4. TypeOK'
    <3>1. opened' \in 0..MaxPays BY <2>1, CountTypes, ProviderAssumption DEF Ids
    <3> QED BY <2>1, <2>2, <3>1 DEF Becomes, Typed, TypeOK, Call, historyVars
  <2>5. PaysCounted'
    <3>1. Cardinality(Undecided') = Cardinality(Undecided) - 1
      BY <2>1, OneLess DEF Becomes
    <3> QED BY <2>1, <2>2, <3>1, CountTypes DEF PaysCounted
  <2> QED BY <2>3, <2>4, <2>5 DEF Typed
<1> QED BY <1>1, <1>2

\* From the signature on, a call is decided.
LEMMA SignTyped ==
  ASSUME Typed, NEW p \in Calls, SignVoucher(p) \/ SignOpen(p) \/ SignClose(p)
  PROVE  Typed'
<1>1. /\ call[p].pc = "sign" /\ call[p].key \in Keys /\ call[p].id \in Ids
      /\ call[p].kind # "none" /\ (call[p].kind = "open" => call[p].deposit # None)
      /\ Signed(p) \/ GivenUp(p)
  <2>1. call[p].kind = "open" => call[p].deposit # None
    BY CallFacts DEF None
  <2> QED BY <2>1, SignEffect, SignCloseEffect, CallFacts DEF Vouchers
<1>2. /\ registry' \in {registry, Record(p)}
      /\ idToKey' \in {idToKey, [idToKey EXCEPT ![call[p].id] = call[p].key]}
  BY SignEffect DEF SignClose, clientVars
<1>3. UNCHANGED <<precompile, last, opened, pays, other, channel, raced, restarted, strayed>>
  BY DEF SignVoucher, SignOpen, SignClose, clientVars
<1>4. CallsPlaced'
  BY <1>1, PlacedAfter DEF Signed, GivenUp, Becomes
<1>5. call[p].cum \in Nat /\ call[p].id \in 0..MaxPays
  BY CallFacts
<1>6. authorised' \in [Ids -> Nat]
  <2>1. authorised \in [Ids -> Nat] BY DEF Typed, TypeOK
  <2>2. Larger(authorised[call[p].id], call[p].cum) \in Nat
    BY <1>1, <1>5, <2>1 DEF Larger
  <2> QED BY <1>1, <2>1, <2>2 DEF Signed, GivenUp, Authorise
<1>7. registry' \in [Keys -> [id: 0..MaxPays, cum: Nat]]
  <2>1. registry \in [Keys -> [id: 0..MaxPays, cum: Nat]]
    BY DEF Typed, TypeOK
  <2>2. [id |-> call[p].id, cum |-> call[p].cum] \in [id: 0..MaxPays, cum: Nat]
    BY <1>5
  <2> QED BY <1>1, <1>2, <2>1, <2>2 DEF Record
<1>8. idToKey' \in [Ids -> Keys \cup {None}]
  BY <1>1, <1>2 DEF Typed, TypeOK
<1>9. TypeOK'
  <2>1. call' \in [Calls -> Call] BY <1>1 DEF Signed, GivenUp, Becomes
  <2> QED BY <1>3, <1>6, <1>7, <1>8, <2>1 DEF Typed, TypeOK, Call
<1>10. PaysCounted'
  BY <1>1, <1>3, SameCount, CountTypes DEF PaysCounted, Signed, GivenUp, Becomes
<1> QED BY <1>4, <1>9, <1>10 DEF Typed

LEMMA AnswerTyped ==
  ASSUME Typed, NEW p \in Calls, Arrive(p) \/ Return(p) \/ Lose(p)
  PROVE  Typed'
<1>1. CASE Arrive(p)
  <2>1. PICK pc \in {"accepted", "refused"} :
          /\ Becomes(p, pc, call[p].kind, call[p].key, call[p].id, call[p].cum)
          /\ call'[p].deposit = call[p].deposit
          /\ strayed' \in {strayed, strayed \cup {call[p].id}}
    BY <1>1, ArriveEffect
  <2>2. /\ call[p].pc = "sent" /\ call[p].id \in Ids /\ call[p].key \in Keys
        /\ channel' \in [Ids -> Channel]
    BY <1>1, ArriveEffect
  <2>3. call[p].kind # "none" /\ (call[p].kind = "open" => call[p].deposit # None)
    BY <2>2, CallFacts DEF None
  <2>4. CallsPlaced'
    BY <2>1, <2>2, <2>3, PlacedAfter DEF Becomes
  <2>5. TypeOK'
    BY <1>1, <2>1, <2>2 DEF Arrive, Becomes, Typed, TypeOK, Call, Channel, clientVars
  <2>6. PaysCounted'
    <3>1. opened' = opened /\ pays' = pays BY <1>1 DEF Arrive, clientVars
    <3> QED BY <2>1, <2>2, <3>1, SameCount, CountTypes DEF PaysCounted, Becomes
  <2> QED BY <2>4, <2>5, <2>6 DEF Typed
<1>2. CASE Return(p) \/ Lose(p)
  <2>1. /\ Becomes(p, "idle", "none", None, 0, 0)
        /\ call[p].pc \in {"sent", "accepted", "refused"} /\ call[p].id \in Ids
        /\ strayed' \subseteq strayed \cup {call[p].id}
    BY <1>2, ReturnEffect
  <2>2. UNCHANGED <<clientVars, channel, authorised, raced, restarted>>
    BY <1>2 DEF Return, Lose, historyVars
  <2>3. CallsPlaced'
    BY <2>1, PlacedAfter DEF Becomes
  <2>4. TypeOK'
    BY <2>1, <2>2 DEF Becomes, Typed, TypeOK, Call, clientVars
  <2>5. PaysCounted'
    BY <2>1, <2>2, SameCount, CountTypes DEF PaysCounted, Becomes, clientVars
  <2> QED BY <2>3, <2>4, <2>5 DEF Typed
<1> QED BY <1>1, <1>2

\* A settlement raises what is settled to the highest voucher.
LEMMA SettleEffect ==
  ASSUME Typed, Settle
  PROVE  \E i \in Ids :
           LET c == channel'[i] IN
           /\ channel[i].settled < channel[i].highest
           /\ channel' \in [Ids -> Channel]
           /\ \A j \in Ids \ {i} : channel'[j] = channel[j]
           /\ c.settled = channel[i].highest /\ c.highest = channel[i].highest
           /\ c.key = channel[i].key /\ c.deposit = channel[i].deposit
           /\ c.known = channel[i].known /\ c.gone = channel[i].gone
<1>1. PICK i \in Ids : /\ channel[i].settled < channel[i].highest
                       /\ channel' = [channel EXCEPT ![i].settled = channel[i].highest]
  BY DEF Settle
<1>2. channel \in [Ids -> Channel] /\ channel[i] \in Channel
  BY DEF Typed, TypeOK, Channel
<1> DEFINE c == [channel[i] EXCEPT !.settled = channel[i].highest]
<1>3. /\ c \in Channel /\ c.settled = channel[i].highest /\ c.highest = channel[i].highest
      /\ c.key = channel[i].key /\ c.deposit = channel[i].deposit
      /\ c.known = channel[i].known /\ c.gone = channel[i].gone
  BY <1>2 DEF Channel
<1>4. channel' = [channel EXCEPT ![i] = c]
  BY <1>1
<1> HIDE DEF c
<1>5. channel' \in [Ids -> Channel] /\ channel'[i] = c
      /\ \A j \in Ids \ {i} : channel'[j] = channel[j]
  BY <1>2, <1>3, <1>4
<1> QED BY <1>1, <1>3, <1>5

\* A restart leaves only the credentials that are on their way.
LEMMA RestartEffect ==
  ASSUME Typed, Restart
  PROVE  /\ call' \in [Calls -> Call]
         /\ \A q \in Calls : call'[q] = call[q] \/ call'[q] = NoCall
         /\ Undecided' = {} /\ Cardinality(Undecided') = 0
         /\ restarted'
<1>1. \A q \in Calls : call'[q] = IF call[q].pc = "sent" THEN call[q] ELSE NoCall
  BY DEF Restart
<1>2. call' \in [Calls -> Call]
  BY CallFacts, NoCallFacts DEF Restart
<1>3. Undecided' = {}
  BY <1>1, NoCallFacts DEF Undecided
<1> QED BY <1>1, <1>2, <1>3, FS_EmptySet DEF Restart

LEMMA EnvironmentTyped == ASSUME Typed, Settle \/ Restart PROVE Typed'
<1>1. CASE Settle
  <2>1. channel' \in [Ids -> Channel] BY <1>1, SettleEffect
  <2>2. UNCHANGED <<clientVars, call, historyVars>> BY <1>1 DEF Settle
  <2> QED BY <2>1, <2>2
      DEF Typed, TypeOK, CallsPlaced, PaysCounted, Undecided, Channel, clientVars, historyVars
<1>2. CASE Restart
  <2>1. registry' \in [Keys -> [id: 0..MaxPays, cum: Nat]]
    <3>1. 0 \in 0..MaxPays BY ProviderAssumption
    <3> QED BY <1>2, <3>1 DEF Restart, NoEntry
  <2>2. TypeOK'
    BY <1>2, <2>1, RestartEffect DEF Restart, Typed, TypeOK, Call
  <2>3. CallsPlaced'
    BY <1>2, RestartEffect, NoCallFacts DEF Typed, CallsPlaced
  <2>4. PaysCounted'
    <3>1. opened' = opened /\ pays' = pays BY <1>2 DEF Restart
    <3> QED BY <1>2, <3>1, RestartEffect, CountTypes DEF PaysCounted
  <2> QED BY <2>2, <2>3, <2>4 DEF Typed
<1> QED BY <1>1, <1>2

LEMMA NextTyped == Typed /\ [Next]_vars => Typed'
<1> SUFFICES ASSUME Typed, [Next]_vars PROVE Typed'
  OBVIOUS
<1>1. CASE UNCHANGED vars
  BY <1>1 DEF vars, clientVars, historyVars, Typed, TypeOK, CallsPlaced, PaysCounted, Undecided
<1> QED
  BY <1>1, StartTyped, DecideTyped, SignTyped, AnswerTyped, EnvironmentTyped DEF Next

-----------------------------------------------------------------------------
(* The bound on what is authorised.                                        *)

LEMMA EarnedTypes == Typed => Deciding \in Nat /\ Earned \in Nat
<1> SUFFICES ASSUME Typed PROVE Deciding \in Nat /\ Earned \in Nat
  OBVIOUS
<1>1. Deciding \in Nat
  BY CountTypes DEF Deciding
<1> QED BY <1>1, ProviderAssumption DEF Earned

LEMMA Product ==
  ASSUME NEW a \in Nat, NEW b \in Nat, a <= b
  PROVE  /\ Amount * a <= Amount * b
         /\ Amount * (a + 1) = Amount * a + Amount
<1> DEFINE c == b - a
<1>1. c \in Nat /\ b = a + c
  OBVIOUS
<1> HIDE DEF c
<1>2. Amount * b = Amount * a + Amount * c
  BY <1>1, ProviderAssumption
<1>3. Amount * a \in Nat /\ Amount * c \in Nat
  BY <1>1, ProviderAssumption
<1> QED BY <1>2, <1>3, ProviderAssumption

\* What was within the bound stays so as calls are made.
LEMMA EarnedGrows ==
  ASSUME Typed, Typed', Deciding' >= Deciding
  PROVE  /\ Earned \in Nat /\ Earned' \in Nat /\ Earned <= Earned'
         /\ Deciding' >= Deciding + 1 => Earned + Amount <= Earned'
<1>1. Deciding \in Nat /\ Deciding' \in Nat /\ Earned \in Nat /\ Earned' \in Nat
  <2>1. (Deciding \in Nat /\ Earned \in Nat)' BY EarnedTypes, PTL
  <2> QED BY <2>1, EarnedTypes
<1>2. Earned <= Earned'
  BY <1>1, Product DEF Earned
<1>3. ASSUME Deciding' >= Deciding + 1 PROVE Earned + Amount <= Earned'
  BY <1>1, <1>3, Product, Deciding + 1 \in Nat DEF Earned
<1> QED BY <1>1, <1>2, <1>3

\* Only the acting call has a new amount.
LEMMA EarnedByCall ==
  ASSUME Typed, Typed', AmountsEarned, Deciding' >= Deciding,
         NEW p \in Calls, \A q \in Calls \ {p} : call'[q] = call[q],
         UNCHANGED <<registry, channel, authorised>>,
         \/ call'[p].cum <= Earned
         \/ Deciding' >= Deciding + 1 /\ call'[p].cum <= Earned + Amount
  PROVE  AmountsEarned'
<1>1. /\ Earned \in Nat /\ Earned' \in Nat /\ Earned <= Earned'
      /\ Deciding' >= Deciding + 1 => Earned + Amount <= Earned'
  BY EarnedGrows
<1>2. \A q \in Calls : call[q].cum \in Nat /\ call'[q].cum \in Nat
  BY DEF Typed, TypeOK
<1>3. \A k \in Keys : registry[k].cum \in Nat
  BY DEF Typed, TypeOK
<1>4. \A i \in Ids : /\ authorised[i] \in Nat /\ channel[i].highest \in Nat
                     /\ channel[i].settled \in Nat
  BY DEF Typed, TypeOK
<1>5. \A q \in Calls : call'[q].cum <= Earned'
  <2>1. call'[p].cum <= Earned'
    BY <1>1, <1>2, ProviderAssumption
  <2>2. ASSUME NEW q \in Calls \ {p} PROVE call'[q].cum <= Earned'
    BY <1>1, <1>2, <2>2 DEF AmountsEarned
  <2> QED BY <2>1, <2>2
<1>6. \A k \in Keys : registry'[k].cum <= Earned'
  BY <1>1, <1>3 DEF AmountsEarned
<1>7. \A i \in Ids : /\ authorised'[i] <= Earned' /\ channel'[i].highest <= Earned'
                     /\ channel'[i].settled <= Earned'
  BY <1>1, <1>4 DEF AmountsEarned
<1> QED BY <1>5, <1>6, <1>7 DEF AmountsEarned

\* No amount is new.
LEMMA EarnedBefore ==
  ASSUME Typed, Typed', AmountsEarned, Deciding' >= Deciding,
         \A k \in Keys : registry'[k].cum <= Earned,
         \A q \in Calls : call'[q].cum <= Earned,
         \A i \in Ids : /\ authorised'[i] <= Earned /\ channel'[i].highest <= Earned
                        /\ channel'[i].settled <= Earned
  PROVE  AmountsEarned'
<1>1. Earned \in Nat /\ Earned' \in Nat /\ Earned <= Earned'
  BY EarnedGrows
<1>2. /\ \A q \in Calls : call'[q].cum \in Nat
      /\ \A k \in Keys : registry'[k].cum \in Nat
      /\ \A i \in Ids : /\ authorised'[i] \in Nat /\ channel'[i].highest \in Nat
                        /\ channel'[i].settled \in Nat
  BY DEF Typed, TypeOK
<1> QED BY <1>1, <1>2 DEF AmountsEarned

LEMMA StartEarned ==
  ASSUME Typed, Typed', AmountsEarned,
         NEW p \in Calls, PayStart(p) \/ EventStart(p) \/ CloseStart(p)
  PROVE  AmountsEarned'
<1>1. Earned \in Nat /\ Amount \in Nat
  BY EarnedTypes, ProviderAssumption
<1>2. CASE PayStart(p)
  <2>1. PICK k \in Keys :
          \/ Becomes(p, "sign", "voucher", k, registry[k].id, registry[k].cum + Amount)
          \/ \E i \in Ids : Becomes(p, "recover", "none", k, i, 0)
          \/ Becomes(p, "open", "none", k, 0, 0)
    BY <1>2, PayEffect
  <2>2. call[p].pc = "idle" /\ pays' = pays + 1 /\ pays \in Nat
    BY <1>2, PayEffect
  <2>3. UNCHANGED <<registry, channel, authorised, other>>
    BY <1>2 DEF PayStart
  <2>4. CASE Becomes(p, "sign", "voucher", k, registry[k].id, registry[k].cum + Amount)
    <3>1. Deciding' = Deciding + 1
      BY <2>2, <2>3, <2>4, SameCount, CountTypes DEF Becomes, Deciding
    <3>2. Deciding \in Nat /\ registry[k].cum \in Nat /\ registry[k].cum <= Earned
      BY EarnedTypes DEF Typed, TypeOK, AmountsEarned
    <3>3. call'[p].cum <= Earned + Amount
      BY <1>1, <2>4, <3>2 DEF Becomes
    <3> QED BY <2>3, <2>4, <3>1, <3>2, <3>3, EarnedByCall DEF Becomes
  <2>5. ASSUME call'[p].pc \in {"recover", "open"}, call'[p].cum = 0,
               \A q \in Calls \ {p} : call'[q] = call[q]
        PROVE  AmountsEarned'
    <3>1. Deciding' = Deciding /\ Deciding \in Nat
      BY <2>2, <2>3, <2>5, OneMore, CountTypes DEF Deciding
    <3> QED BY <1>1, <2>3, <2>5, <3>1, EarnedByCall
  <2> QED BY <2>1, <2>4, <2>5 DEF Becomes
<1>3. ASSUME call[p].pc = "idle", call'[p].pc = "sign", other' = other + 1,
             \A q \in Calls \ {p} : call'[q] = call[q],
             UNCHANGED <<registry, channel, authorised, pays>>,
             call'[p].cum <= Earned + Amount
      PROVE  AmountsEarned'
  <2>1. Deciding' = Deciding + 1
    BY <1>3, SameCount, CountTypes DEF Deciding
  <2> QED BY <1>3, <2>1, EarnedTypes, EarnedByCall
<1>4. CASE EventStart(p)
  <2>1. UNCHANGED <<registry, channel, authorised, pays>>
    BY <1>4 DEF EventStart
  <2>2. PICK i \in Ids, required \in Nat :
          /\ last \in Keys /\ required <= channel[i].highest + Amount
          /\ Becomes(p, "sign", "event", last, i, Larger(required, registry[last].cum))
    BY <1>4, EventEffect
  <2>3. channel[i].highest \in Nat /\ registry[last].cum \in Nat
    BY <2>2 DEF Typed, TypeOK
  <2>4. Larger(required, registry[last].cum) <= Earned + Amount
    BY <1>1, <2>2, <2>3 DEF Larger, AmountsEarned
  <2> QED BY <1>3, <1>4, <2>1, <2>2, <2>4, EventEffect DEF Becomes
<1>5. CASE CloseStart(p)
  <2>1. UNCHANGED <<registry, channel, authorised, pays>>
    BY <1>5 DEF CloseStart
  <2>2. /\ last \in Keys
        /\ Becomes(p, "sign", "close", last, registry[last].id, registry[last].cum)
    BY <1>5, CloseEffect
  <2>3. registry[last].cum \in Nat /\ registry[last].cum <= Earned
    BY <2>2 DEF Typed, TypeOK, AmountsEarned
  <2>4. registry[last].cum <= Earned + Amount
    BY <1>1, <2>3
  <2> QED BY <1>3, <1>5, <2>1, <2>2, <2>4, CloseEffect DEF Becomes
<1> QED BY <1>2, <1>4, <1>5

LEMMA DecideEarned ==
  ASSUME Typed, Typed', AmountsEarned,
         NEW p \in Calls, Recover(p) \/ OpenContract(p) \/ OpenPrecompile(p)
  PROVE  AmountsEarned'
<1>1. Earned \in Nat /\ Amount \in Nat /\ Deciding \in Nat
  BY EarnedTypes, ProviderAssumption
<1>2. UNCHANGED <<registry, channel, authorised, pays, other>>
  BY DEF Recover, OpenContract, OpenPrecompile, clientVars, historyVars
<1>3. call[p].pc \in {"recover", "open"}
  BY RecoverEffect, OpenEffect
<1>4. ASSUME call'[p].pc \notin {"recover", "open"}, call'[p].cum <= Earned + Amount,
             \A q \in Calls \ {p} : call'[q] = call[q]
      PROVE  AmountsEarned'
  <2>1. Deciding' = Deciding + 1
    BY <1>2, <1>3, <1>4, OneLess, CountTypes DEF Deciding
  <2> QED BY <1>1, <1>2, <1>4, <2>1, EarnedByCall
<1>5. CASE Recover(p)
  <2>1. /\ call[p].id \in Ids
        /\ \/ Becomes(p, "sign", "recovered", call[p].key, call[p].id,
                      channel[call[p].id].settled + Amount)
           \/ Becomes(p, "open", "none", call[p].key, 0, call[p].cum)
    BY <1>5, RecoverEffect
  <2>2. CASE Becomes(p, "open", "none", call[p].key, 0, call[p].cum)
    <3>1. Deciding' = Deciding
      BY <1>2, <1>3, <2>2, SameCount, CountTypes DEF Deciding, Becomes
    <3>2. call'[p].cum <= Earned BY <2>2 DEF Becomes, AmountsEarned
    <3> QED BY <1>1, <1>2, <2>2, <3>1, <3>2, EarnedByCall DEF Becomes
  <2>3. CASE Becomes(p, "sign", "recovered", call[p].key, call[p].id,
                     channel[call[p].id].settled + Amount)
    <3>1. channel[call[p].id].settled \in Nat /\ channel[call[p].id].settled <= Earned
      BY <2>1 DEF Typed, TypeOK, AmountsEarned
    <3>2. call'[p].cum <= Earned + Amount BY <1>1, <2>3, <3>1 DEF Becomes
    <3> QED BY <1>4, <2>3, <3>2 DEF Becomes
  <2> QED BY <2>1, <2>2, <2>3
<1>6. CASE OpenContract(p) \/ OpenPrecompile(p)
  <2>1. call'[p].cum \in {0, Amount} /\ call'[p].pc \notin {"recover", "open"}
        /\ \A q \in Calls \ {p} : call'[q] = call[q]
    BY <1>6, OpenEffect DEF Becomes
  <2> QED BY <1>1, <1>4, <2>1
<1> QED BY <1>5, <1>6

LEMMA SignEarned ==
  ASSUME Typed, Typed', AmountsEarned,
         NEW p \in Calls, SignVoucher(p) \/ SignOpen(p) \/ SignClose(p)
  PROVE  AmountsEarned'
<1>1. /\ call[p].pc = "sign" /\ call[p].key \in Keys /\ call[p].id \in Ids
      /\ Signed(p) \/ GivenUp(p)
  BY SignEffect, SignCloseEffect
<1>2. registry' \in {registry, Record(p)}
  BY SignEffect DEF SignClose, clientVars
<1>3. UNCHANGED <<pays, other, channel>>
  BY DEF SignVoucher, SignOpen, SignClose, clientVars
<1>4. Deciding' = Deciding /\ Deciding \in Nat /\ Earned \in Nat
  BY <1>1, <1>3, SameCount, CountTypes, EarnedTypes
  DEF Deciding, Signed, GivenUp, Becomes
<1>5. call[p].cum \in Nat /\ call[p].cum <= Earned
  BY CallFacts DEF AmountsEarned
<1>6. \A k \in Keys : registry'[k].cum <= Earned
  <2>1. DOMAIN registry = Keys BY DEF Typed, TypeOK
  <2>2. \A k \in Keys : registry'[k] = registry[k] \/ registry'[k].cum = call[p].cum
    BY <1>1, <1>2, <2>1 DEF Record
  <2> QED BY <1>5, <2>2 DEF AmountsEarned
<1>7. \A q \in Calls : call'[q].cum <= Earned
  BY <1>1, <1>4, <1>5 DEF Signed, GivenUp, Becomes, AmountsEarned
<1>8. \A i \in Ids : authorised'[i] <= Earned
  <2>1. authorised \in [Ids -> Nat] BY DEF Typed, TypeOK
  <2>2. Larger(authorised[call[p].id], call[p].cum) <= Earned
    BY <1>1, <1>5, <2>1 DEF Larger, AmountsEarned
  <2> QED BY <1>1, <2>1, <2>2 DEF Signed, GivenUp, Authorise, AmountsEarned
<1> QED BY <1>3, <1>4, <1>6, <1>7, <1>8, EarnedBefore DEF AmountsEarned

LEMMA AnswerEarned ==
  ASSUME Typed, Typed', AmountsEarned, NEW p \in Calls, Arrive(p) \/ Return(p) \/ Lose(p)
  PROVE  AmountsEarned'
<1>1. Deciding \in Nat /\ Earned \in Nat
  BY EarnedTypes
<1>2. UNCHANGED <<registry, authorised, pays, other>>
  BY DEF Arrive, Return, Lose, clientVars, historyVars
<1>3. CASE Arrive(p)
  <2>1. PICK pc \in {"accepted", "refused"} :
          Becomes(p, pc, call[p].kind, call[p].key, call[p].id, call[p].cum)
    BY <1>3, ArriveEffect
  <2>2. /\ call[p].pc = "sent" /\ call[p].id \in Ids
        /\ \A j \in Ids \ {call[p].id} : channel'[j] = channel[j]
    BY <1>3, ArriveEffect
  <2>3. Deciding' = Deciding
    BY <1>2, <2>1, <2>2, SameCount DEF Deciding, Becomes
  <2>4. \A q \in Calls : call'[q].cum <= Earned
    BY <2>1 DEF Becomes, AmountsEarned
  <2>5. /\ channel'[call[p].id].highest \in {0, call[p].cum, channel[call[p].id].highest}
        /\ channel'[call[p].id].settled \in {0, call[p].cum, channel[call[p].id].settled}
    BY <1>3, ArriveEffect
  <2>6. \A i \in Ids : channel'[i].highest <= Earned /\ channel'[i].settled <= Earned
    BY <1>1, <2>2, <2>5 DEF AmountsEarned
  <2> QED BY <1>1, <1>2, <2>3, <2>4, <2>6, EarnedBefore DEF AmountsEarned
<1>4. CASE Return(p) \/ Lose(p)
  <2>1. /\ Becomes(p, "idle", "none", None, 0, 0)
        /\ call[p].pc \in {"sent", "accepted", "refused"}
    BY <1>4, ReturnEffect
  <2>2. channel' = channel BY <1>4 DEF Return, Lose
  <2>3. Deciding' = Deciding
    BY <1>2, <2>1, SameCount DEF Deciding, Becomes
  <2> QED BY <1>1, <1>2, <2>1, <2>2, <2>3, EarnedByCall DEF Becomes
<1> QED BY <1>3, <1>4

LEMMA EnvironmentEarned ==
  ASSUME Typed, Typed', AmountsEarned, Settle \/ Restart PROVE AmountsEarned'
<1>1. Deciding \in Nat /\ Earned \in Nat
  BY EarnedTypes
<1>2. CASE Settle
  <2>1. UNCHANGED <<registry, authorised, pays, other, call>>
    BY <1>2 DEF Settle, clientVars, historyVars
  <2>2. Deciding' = Deciding BY <2>1 DEF Deciding, Undecided
  <2>3. \A i \in Ids : channel'[i].highest <= Earned /\ channel'[i].settled <= Earned
    BY <1>2, SettleEffect DEF AmountsEarned
  <2> QED BY <1>1, <2>1, <2>2, <2>3, EarnedBefore DEF AmountsEarned
<1>3. CASE Restart
  <2>1. UNCHANGED <<authorised, pays, other, channel>> BY <1>3 DEF Restart
  <2>2. Deciding' >= Deciding
    <3>1. pays \in Nat /\ other \in Nat /\ Cardinality(Undecided) \in Nat
      BY CountTypes
    <3>2. Cardinality(Undecided') = 0 BY <1>3, RestartEffect
    <3> QED BY <2>1, <3>1, <3>2 DEF Deciding
  <2>3. \A q \in Calls : call'[q].cum <= Earned
    BY <1>1, <1>3, RestartEffect, NoCallFacts DEF AmountsEarned
  <2>4. \A k \in Keys : registry'[k].cum <= Earned
    BY <1>1, <1>3 DEF Restart, NoEntry
  <2> QED BY <2>1, <2>2, <2>3, <2>4, EarnedBefore DEF AmountsEarned
<1> QED BY <1>2, <1>3

LEMMA NextEarned == Typed /\ Typed' /\ AmountsEarned /\ [Next]_vars => AmountsEarned'
<1> SUFFICES ASSUME Typed, Typed', AmountsEarned, [Next]_vars PROVE AmountsEarned'
  OBVIOUS
<1>1. CASE UNCHANGED vars
  BY <1>1 DEF vars, clientVars, historyVars, AmountsEarned, Earned, Deciding, Undecided
<1> QED
  BY <1>1, StartEarned, DecideEarned, SignEarned, AnswerEarned, EnvironmentEarned DEF Next

-----------------------------------------------------------------------------
(* Deposits, signatures and calls that overlap.                            *)

LEMMA NextCapped ==
  Typed /\ DepositsCapped /\ [Next]_vars => DepositsCapped'
<1> SUFFICES ASSUME Typed, DepositsCapped, [Next]_vars, MaxDeposit # None
             PROVE  /\ \A i \in Ids : channel'[i].deposit <= MaxDeposit
                    /\ \A p \in Calls : call'[p].kind = "open" =>
                         call'[p].deposit <= MaxDeposit
  BY DEF DepositsCapped
<1> USE DEF DepositsCapped
<1>1. ASSUME NEW p \in Calls, PayStart(p) \/ EventStart(p) \/ CloseStart(p) \/ Recover(p)
      PROVE  /\ channel' = channel /\ call'[p].kind # "open"
             /\ \A q \in Calls \ {p} : call'[q] = call[q]
  <2>1. channel' = channel
    BY <1>1 DEF PayStart, EventStart, CloseStart, Recover
  <2>2. CASE PayStart(p) BY <2>1, <2>2, PayEffect DEF Becomes
  <2>3. CASE EventStart(p) BY <2>1, <2>3, EventEffect DEF Becomes
  <2>4. CASE CloseStart(p) BY <2>1, <2>4, CloseEffect DEF Becomes
  <2>5. CASE Recover(p) BY <2>1, <2>5, RecoverEffect DEF Becomes
  <2> QED BY <1>1, <2>1, <2>2, <2>3, <2>4, <2>5
<1>2. ASSUME NEW p \in Calls, OpenContract(p) \/ OpenPrecompile(p)
      PROVE  /\ channel' = channel
             /\ call'[p].kind = "open" => call'[p].deposit <= MaxDeposit
             /\ \A q \in Calls \ {p} : call'[q] = call[q]
  <2>1. channel' = channel BY <1>2 DEF OpenContract, OpenPrecompile
  <2> QED BY <1>2, <2>1, OpenEffect DEF Becomes
<1>3. ASSUME NEW p \in Calls, \/ SignVoucher(p) \/ SignOpen(p) \/ SignClose(p)
                              \/ Return(p) \/ Lose(p)
      PROVE  /\ channel' = channel
             /\ call'[p].kind = "open" => call[p].kind = "open"
                                          /\ call'[p].deposit = call[p].deposit
             /\ \A q \in Calls \ {p} : call'[q] = call[q]
  <2>1. channel' = channel
    BY <1>3 DEF SignVoucher, SignOpen, SignClose, Return, Lose
  <2>2. CASE SignVoucher(p) \/ SignOpen(p) \/ SignClose(p)
    BY <2>1, <2>2, SignEffect, SignCloseEffect DEF Signed, GivenUp, Becomes
  <2>3. CASE Return(p) \/ Lose(p)
    BY <2>1, <2>3, ReturnEffect DEF Becomes
  <2> QED BY <1>3, <2>2, <2>3
<1>4. ASSUME NEW p \in Calls, Arrive(p)
      PROVE  /\ \A i \in Ids : channel'[i].deposit <= MaxDeposit
             /\ \A q \in Calls : call'[q].kind = "open" => call'[q].deposit <= MaxDeposit
  <2>1. PICK pc \in {"accepted", "refused"} :
          /\ Becomes(p, pc, call[p].kind, call[p].key, call[p].id, call[p].cum)
          /\ call'[p].deposit = call[p].deposit
          /\ \/ call[p].kind = "open" /\ channel'[call[p].id].deposit = call[p].deposit
             \/ channel'[call[p].id].deposit = channel[call[p].id].deposit
    BY <1>4, ArriveEffect
  <2>2. call[p].id \in Ids /\ \A j \in Ids \ {call[p].id} : channel'[j] = channel[j]
    BY <1>4, ArriveEffect
  <2> QED BY <2>1, <2>2 DEF Becomes
<1>5. CASE Settle
  <2>1. call' = call BY <1>5 DEF Settle
  <2> QED BY <1>5, <2>1, SettleEffect
<1>6. CASE Restart
  <2>1. channel' = channel BY <1>6 DEF Restart
  <2> QED BY <1>6, <2>1, RestartEffect, NoCallFacts
<1>7. CASE UNCHANGED vars
  BY <1>7 DEF vars
<1> QED BY <1>1, <1>2, <1>3, <1>4, <1>5, <1>6, <1>7 DEF Next

\* What is authorised never falls, and covers what has just been signed.
LEMMA AuthoriseEffect ==
  ASSUME Typed, NEW p \in Calls, call[p].id \in Ids, Authorise(p)
  PROVE  /\ \A i \in Ids : authorised[i] <= authorised'[i] /\ authorised'[i] \in Nat
         /\ \A i \in Ids \ {call[p].id} : authorised'[i] = authorised[i]
         /\ call[p].cum <= authorised'[call[p].id]
         /\ authorised'[call[p].id] \in {call[p].cum, authorised[call[p].id]}
<1> DEFINE i == call[p].id
           n == Larger(authorised[i], call[p].cum)
<1>1. authorised \in [Ids -> Nat] /\ authorised[i] \in Nat /\ call[p].cum \in Nat
  BY CallFacts DEF Typed, TypeOK
<1>2. /\ n \in Nat /\ authorised[i] <= n /\ call[p].cum <= n
      /\ n \in {call[p].cum, authorised[i]}
  BY <1>1 DEF Larger
<1>3. authorised' = [authorised EXCEPT ![i] = n]
  BY DEF Authorise
<1> HIDE DEF n
<1> QED BY <1>1, <1>2, <1>3

LEMMA NextSigned ==
  Typed /\ VouchersSigned /\ [Next]_vars => VouchersSigned'
<1> SUFFICES ASSUME Typed, VouchersSigned, [Next]_vars PROVE VouchersSigned'
  OBVIOUS
<1>1. /\ authorised \in [Ids -> Nat]
      /\ \A i \in Ids : channel[i].highest \in Nat /\ channel[i].highest <= authorised[i]
      /\ \A p \in Calls : call[p].pc = "sent" =>
           /\ call[p].id \in Ids /\ call[p].cum \in Nat
           /\ call[p].cum <= authorised[call[p].id]
  BY CallFacts DEF Typed, TypeOK, VouchersSigned
<1>2. ASSUME NEW p \in Calls, UNCHANGED <<channel, authorised>>,
             \A q \in Calls \ {p} : call'[q] = call[q], call'[p].pc # "sent"
      PROVE  VouchersSigned'
  BY <1>1, <1>2 DEF VouchersSigned
<1>3. ASSUME NEW p \in Calls, PayStart(p) \/ EventStart(p) \/ CloseStart(p) PROVE VouchersSigned'
  <2>1. UNCHANGED <<channel, authorised>>
    BY <1>3 DEF PayStart, EventStart, CloseStart
  <2> QED BY <1>2, <1>3, <2>1, PayEffect, EventEffect, CloseEffect DEF Becomes
<1>4. ASSUME NEW p \in Calls, Recover(p) \/ OpenContract(p) \/ OpenPrecompile(p)
      PROVE  VouchersSigned'
  <2>1. UNCHANGED <<channel, authorised>>
    BY <1>4 DEF Recover, OpenContract, OpenPrecompile, historyVars
  <2> QED BY <1>2, <1>4, <2>1, RecoverEffect, OpenEffect DEF Becomes
<1>5. ASSUME NEW p \in Calls, SignVoucher(p) \/ SignOpen(p) \/ SignClose(p)
      PROVE  VouchersSigned'
  <2>1. /\ call[p].pc = "sign" /\ call[p].id \in Ids /\ call[p].cum \in Nat
        /\ Signed(p) \/ GivenUp(p)
    BY <1>5, SignEffect, SignCloseEffect, CallFacts
  <2>2. channel' = channel BY <1>5 DEF SignVoucher, SignOpen, SignClose
  <2>3. CASE GivenUp(p)
    BY <1>2, <2>2, <2>3 DEF GivenUp, Becomes
  <2>4. CASE Signed(p)
    <3>1. /\ \A i \in Ids : authorised[i] <= authorised'[i] /\ authorised'[i] \in Nat
          /\ call[p].cum <= authorised'[call[p].id]
      BY <2>1, <2>4, AuthoriseEffect DEF Signed
    <3>2. \A i \in Ids : channel'[i].highest <= authorised'[i]
      BY <1>1, <2>2, <3>1
    <3>3. ASSUME NEW q \in Calls, call'[q].pc = "sent"
          PROVE  call'[q].cum <= authorised'[call'[q].id]
      <4>1. CASE q = p BY <2>4, <3>1, <4>1 DEF Signed, Becomes
      <4>2. CASE q # p
        <5>1. call'[q] = call[q] BY <2>4, <4>2 DEF Signed, Becomes
        <5> QED BY <1>1, <3>1, <3>3, <5>1
      <4> QED BY <4>1, <4>2
    <3> QED BY <3>2, <3>3 DEF VouchersSigned
  <2> QED BY <2>1, <2>3, <2>4
<1>6. ASSUME NEW p \in Calls, Arrive(p) PROVE VouchersSigned'
  <2>1. PICK pc \in {"accepted", "refused"} :
          Becomes(p, pc, call[p].kind, call[p].key, call[p].id, call[p].cum)
    BY <1>6, ArriveEffect
  <2>2. /\ call[p].pc = "sent" /\ call[p].id \in Ids
        /\ \A j \in Ids \ {call[p].id} : channel'[j] = channel[j]
        /\ channel'[call[p].id].highest \in {0, call[p].cum, channel[call[p].id].highest}
    BY <1>6, ArriveEffect
  <2>3. authorised' = authorised BY <1>6 DEF Arrive
  <2>4. \A i \in Ids : channel'[i].highest <= authorised'[i]
    BY <1>1, <2>2, <2>3
  <2> QED BY <1>1, <2>1, <2>3, <2>4 DEF Becomes, VouchersSigned
<1>7. ASSUME NEW p \in Calls, Return(p) \/ Lose(p) PROVE VouchersSigned'
  <2>1. UNCHANGED <<channel, authorised>> BY <1>7 DEF Return, Lose, historyVars
  <2> QED BY <1>2, <1>7, <2>1, ReturnEffect DEF Becomes
<1>8. CASE Settle
  <2>1. UNCHANGED <<authorised, call>> BY <1>8 DEF Settle, historyVars
  <2>2. \A i \in Ids : channel'[i].highest = channel[i].highest BY <1>8, SettleEffect
  <2> QED BY <2>1, <2>2 DEF VouchersSigned
<1>9. CASE Restart
  <2>1. UNCHANGED <<channel, authorised>> BY <1>9 DEF Restart
  <2> QED BY <1>1, <1>9, <2>1, RestartEffect, NoCallFacts DEF VouchersSigned
<1>10. CASE UNCHANGED vars
  BY <1>10 DEF vars, historyVars, VouchersSigned
<1> QED BY <1>3, <1>4, <1>5, <1>6, <1>7, <1>8, <1>9, <1>10 DEF Next

\* A call that begins while another is under way is seen.
LEMMA NextOneBusy ==
  Typed /\ OneBusy /\ [Next]_vars => OneBusy'
<1> SUFFICES ASSUME Typed, OneBusy, [Next]_vars PROVE OneBusy'
  OBVIOUS
<1>1. ASSUME NEW p \in Calls, \A q \in Calls \ {p} : call'[q] = call[q], raced' = raced,
             call[p].pc # "idle"
      PROVE  OneBusy'
  BY <1>1 DEF OneBusy
<1>2. ASSUME NEW p \in Calls, PayStart(p) \/ EventStart(p) \/ CloseStart(p) PROVE OneBusy'
  <2>1. raced' = (raced \/ Busy) /\ \A q \in Calls \ {p} : call'[q] = call[q]
    BY <1>2, PayEffect, EventEffect, CloseEffect
    DEF PayStart, EventStart, CloseStart, Becomes
  <2> QED BY <2>1 DEF OneBusy, Busy
<1>3. ASSUME NEW p \in Calls, Recover(p) \/ OpenContract(p) \/ OpenPrecompile(p)
      PROVE  OneBusy'
  <2>1. raced' = raced BY <1>3 DEF Recover, OpenContract, OpenPrecompile, historyVars
  <2> QED BY <1>1, <1>3, <2>1, RecoverEffect, OpenEffect DEF Becomes
<1>4. ASSUME NEW p \in Calls, SignVoucher(p) \/ SignOpen(p) \/ SignClose(p)
      PROVE  OneBusy'
  <2>1. raced' = raced BY <1>4 DEF SignVoucher, SignOpen, SignClose
  <2> QED BY <1>1, <1>4, <2>1, SignEffect, SignCloseEffect DEF Signed, GivenUp, Becomes
<1>5. ASSUME NEW p \in Calls, Arrive(p) \/ Return(p) \/ Lose(p) PROVE OneBusy'
  <2>1. raced' = raced BY <1>5 DEF Arrive, Return, Lose, historyVars
  <2> QED BY <1>1, <1>5, <2>1, ArriveEffect, ReturnEffect DEF Becomes
<1>6. CASE Settle \/ Restart
  <2>1. raced' = raced BY <1>6 DEF Settle, Restart, historyVars
  <2>2. \A q \in Calls : call'[q] = call[q] \/ call'[q] = NoCall
    BY <1>6, RestartEffect DEF Settle
  <2> QED BY <2>1, <2>2, NoCallFacts DEF OneBusy
<1>7. CASE UNCHANGED vars
  BY <1>7 DEF vars, historyVars, OneBusy
<1> QED BY <1>2, <1>3, <1>4, <1>5, <1>6, <1>7 DEF Next

-----------------------------------------------------------------------------
(* One call after another.                                                 *)

LEMMA Alone ==
  ASSUME OneBusy, ~raced, NEW p \in Calls, call[p].pc # "idle"
  PROVE  \A q \in Calls \ {p} : call[q].pc = "idle"
BY DEF OneBusy

\* A call that begins unseen is alone.
LEMMA BeginsAlone ==
  ASSUME Typed, NEW p \in Calls, PayStart(p) \/ EventStart(p) \/ CloseStart(p), ~raced'
  PROVE  ~raced /\ \A q \in Calls : call[q].pc = "idle"
BY DEF PayStart, EventStart, CloseStart, Busy, Typed, TypeOK

\* The types the lemmas below look at.
LEMMA EntryTypes ==
  ASSUME Typed
  PROVE  /\ \A k \in Keys : registry[k].id \in 0..MaxPays /\ registry[k].cum \in Nat
         /\ \A i \in Ids : /\ authorised[i] \in Nat /\ channel[i].highest \in Nat
                           /\ channel[i].settled \in Nat /\ channel[i].deposit \in Nat
                           /\ channel[i].key \in Keys \cup {None}
         /\ \A k \in Keys : registry[k].id # 0 => registry[k].id \in Ids
         /\ None \notin Keys /\ Amount \in Nat /\ Amount > 0
<1>1. \A k \in Keys : registry[k].id \in 0..MaxPays /\ registry[k].cum \in Nat
  BY DEF Typed, TypeOK
<1>2. \A k \in Keys : registry[k].id # 0 => registry[k].id \in Ids
  BY <1>1, ProviderAssumption DEF Ids
<1> QED BY <1>1, <1>2, ProviderAssumption DEF Typed, TypeOK

LEMMA OthersCurrent ==
  ASSUME CallsCurrent, NEW p \in Calls, CallCurrent(p)',
         \A q \in Calls \ {p} : call'[q] = call[q] /\ call[q].pc = "idle"
  PROVE  CallsCurrent'
<1> SUFFICES ASSUME NEW q \in Calls \ {p} PROVE CallCurrent(q)'
  BY DEF CallsCurrent
<1>1. call[q].kind # "recovered"
  BY DEF CallsCurrent, CallCurrent
<1> QED BY <1>1 DEF CallCurrent

LEMMA StartInOrder ==
  ASSUME Typed, VouchersSigned, InOrder, ~raced',
         NEW p \in Calls, PayStart(p) \/ EventStart(p) \/ CloseStart(p)
  PROVE  InOrder'
<1>1. /\ UNCHANGED <<registry, opened, channel, authorised, strayed>>
      /\ \A q \in Calls : call[q].pc = "idle"
  BY BeginsAlone DEF PayStart, EventStart, CloseStart
<1>2. \A q \in Calls \ {p} : call'[q] = call[q]
  BY PayEffect, EventEffect, CloseEffect DEF Becomes
<1>3. RegistryOwns'
  BY <1>1 DEF InOrder, RegistryOwns
<1>4. \A k \in Keys : registry[k].id # 0 =>
        channel[registry[k].id].known \/ registry[k].id \in strayed
  BY <1>1 DEF InOrder, RegistryKnown
<1>5. RegistryKnown'
  BY <1>1, <1>4 DEF RegistryKnown
<1>6. \A k \in Keys : registry[k].id # 0 =>
        registry[k].cum >= channel[registry[k].id].highest
  BY EntryTypes DEF InOrder, RegistryOwns, VouchersSigned
<1>7. CallCurrent(p)'
  <2>1. CASE PayStart(p)
    <3>1. PICK k \in Keys :
            \/ /\ registry[k].id # 0
               /\ Becomes(p, "sign", "voucher", k, registry[k].id, registry[k].cum + Amount)
            \/ \E i \in Ids : /\ registry[k].id = 0 /\ channel[i].key = k
            \/ registry[k].id = 0 /\ Becomes(p, "open", "none", k, 0, 0)
      BY <2>1, PayEffect
    <3>2. ASSUME NEW i \in Ids, registry[k].id = 0, channel[i].key = k PROVE FALSE
      <4>1. registry[k].id = i BY <3>2, EntryTypes DEF InOrder, RegistryOwns
      <4> QED BY <3>2, <4>1 DEF Ids
    <3>3. CASE /\ registry[k].id # 0
               /\ Becomes(p, "sign", "voucher", k, registry[k].id, registry[k].cum + Amount)
      <4>1. /\ registry[k].cum + Amount >= registry[k].cum
            /\ registry[k].cum + Amount > channel[registry[k].id].highest
        BY <1>6, <3>3, EntryTypes
      <4> QED BY <1>1, <1>4, <3>3, <4>1 DEF Becomes, CallCurrent
    <3>4. CASE registry[k].id = 0 /\ Becomes(p, "open", "none", k, 0, 0)
      BY <1>1, <3>4 DEF Becomes, CallCurrent
    <3> QED BY <3>1, <3>2, <3>3, <3>4
  <2>2. CASE EventStart(p)
    <3>1. PICK i \in Ids, required \in Nat :
            /\ channel[i].known /\ last \in Keys /\ registry[last].id = i
            /\ Becomes(p, "sign", "event", last, i, Larger(required, registry[last].cum))
      BY <2>2, EventEffect
    <3>2. Larger(required, registry[last].cum) >= registry[last].cum
      BY <3>1, EntryTypes DEF Larger
    <3> QED BY <1>1, <3>1, <3>2 DEF Becomes, CallCurrent
  <2>3. CASE CloseStart(p)
    <3>1. /\ last \in Keys /\ registry[last].id \in Ids
          /\ Becomes(p, "sign", "close", last, registry[last].id, registry[last].cum)
      BY <2>3, CloseEffect
    <3>2. registry[last].id # 0 BY <3>1 DEF Ids
    <3> QED BY <1>1, <1>4, <1>6, <3>1, <3>2 DEF Becomes, CallCurrent
  <2> QED BY <2>1, <2>2, <2>3
<1>8. CallsCurrent'
  BY <1>1, <1>2, <1>7, OthersCurrent DEF InOrder
<1> QED BY <1>3, <1>5, <1>8 DEF InOrder

\* What a call relies on is gone with it.
LEMMA GivenUpCurrent ==
  ASSUME NEW p \in Calls, Becomes(p, "idle", "none", None, 0, 0)
  PROVE  CallCurrent(p)'
BY DEF Becomes, CallCurrent

\* A channel is never looked up, and the id of a new one is free.
LEMMA DecideInOrder ==
  ASSUME Typed, InOrder, OneBusy, ~raced',
         NEW p \in Calls, Recover(p) \/ OpenContract(p) \/ OpenPrecompile(p)
  PROVE  InOrder'
<1>1. CallCurrent(p)
  BY DEF InOrder, CallsCurrent
<1>2. OpenContract(p) \/ OpenPrecompile(p)
  BY <1>1 DEF CallCurrent, Recover
<1>3. UNCHANGED <<registry, channel, authorised, strayed, raced>>
  BY <1>2 DEF OpenContract, OpenPrecompile, historyVars
<1>4. call[p].pc = "open" /\ call[p].key \in Keys /\ registry[call[p].key].id = 0
  BY <1>1, <1>2, OpenEffect DEF CallCurrent
<1>5. \/ /\ opened' = opened + 1 /\ opened' \in Ids
         /\ Becomes(p, "sign", "open", call[p].key, opened', Amount)
      \/ opened' = opened /\ Becomes(p, "idle", "none", None, 0, 0)
  BY <1>2, OpenEffect
<1>6. \A q \in Calls \ {p} : call'[q] = call[q] /\ call[q].pc = "idle"
  BY <1>3, <1>4, <1>5, Alone DEF Becomes
<1>7. RegistryOwns'
  BY <1>3, <1>5, CountTypes, EntryTypes DEF InOrder, RegistryOwns, Ids
<1>8. RegistryKnown'
  BY <1>3, <1>4, <1>6 DEF InOrder, RegistryKnown
<1>9. CallCurrent(p)'
  <2>1. CASE /\ opened' = opened + 1 /\ opened' \in Ids
             /\ Becomes(p, "sign", "open", call[p].key, opened', Amount)
    <3>1. authorised[opened'] = 0 /\ \A k \in Keys : registry[k].id # opened'
      BY <2>1, CountTypes, EntryTypes DEF InOrder, RegistryOwns
    <3> QED BY <1>3, <1>4, <2>1, <3>1, CountTypes DEF Becomes, CallCurrent
  <2> QED BY <1>5, <2>1, GivenUpCurrent
<1>10. CallsCurrent'
  BY <1>6, <1>9, OthersCurrent DEF InOrder
<1> QED BY <1>7, <1>8, <1>10 DEF InOrder

\* The entry that is put back is still the one that was copied, or there was none.
LEMMA SignInOrder ==
  ASSUME Typed, VouchersSigned, InOrder, OneBusy, ~raced',
         NEW p \in Calls, SignVoucher(p) \/ SignOpen(p) \/ SignClose(p)
  PROVE  InOrder'
<1> DEFINE c == call[p]
<1>1. CallCurrent(p)
  BY DEF InOrder, CallsCurrent
<1>2. /\ c.pc = "sign" /\ c.key \in Keys /\ c.id \in Ids /\ c.cum \in Nat
      /\ c.kind \in {"voucher", "event", "open", "close"}
      /\ Signed(p) \/ GivenUp(p)
      /\ UNCHANGED <<channel, opened, strayed, raced>>
  <2>1. /\ c.pc = "sign" /\ c.key \in Keys /\ c.id \in Ids /\ c.cum \in Nat
        /\ c.kind \in Vouchers \cup {"open", "close"}
    BY SignEffect, SignCloseEffect, CallFacts
  <2>2. UNCHANGED <<channel, opened, strayed, raced>>
    BY DEF SignVoucher, SignOpen, SignClose, clientVars
  <2>3. c.kind # "recovered"
    BY <1>1 DEF CallCurrent
  <2> QED BY <2>1, <2>2, <2>3, SignEffect, SignCloseEffect DEF Vouchers
<1>3. \A q \in Calls \ {p} : call'[q] = call[q] /\ call[q].pc = "idle"
  BY <1>2, Alone DEF Signed, GivenUp, Becomes
<1>4. \A k \in Keys : registry[k].id # 0 =>
        channel[registry[k].id].known \/ registry[k].id \in strayed
  BY <1>2, <1>3 DEF InOrder, RegistryKnown
<1>5. CASE GivenUp(p)
  <2>1. UNCHANGED <<registry, authorised>>
    BY <1>2, <1>5, SignEffect DEF GivenUp, SignClose, clientVars, Signed, Becomes
  <2>2. RegistryOwns' BY <1>2, <2>1 DEF InOrder, RegistryOwns
  <2>3. RegistryKnown' BY <1>2, <1>4, <2>1 DEF RegistryKnown
  <2>4. CallsCurrent' BY <1>3, <1>5, GivenUpCurrent, OthersCurrent DEF InOrder, GivenUp
  <2> QED BY <2>2, <2>3, <2>4 DEF InOrder
<1>6. CASE Signed(p) /\ c.kind # "open"
  <2>1. /\ registry[c.key].id = c.id /\ c.id # 0
        /\ c.cum >= registry[c.key].cum
        /\ channel[c.id].known \/ c.id \in strayed
        /\ c.kind = "voucher" => c.cum > channel[c.id].highest
        /\ c.kind = "close" => c.cum >= channel[c.id].highest
    BY <1>1, <1>2, <1>6, EntryTypes DEF CallCurrent, Ids
  <2>2. /\ \A k \in Keys : registry'[k].id = registry[k].id
        /\ \A k \in Keys \ {c.key} : registry'[k] = registry[k]
        /\ registry'[c.key].cum = c.cum
    <3>1. CASE c.kind = "close"
      <4>1. registry' = registry /\ c.cum = registry[c.key].cum
        BY <1>1, <1>2, <3>1, SignEffect
        DEF SignVoucher, SignOpen, SignClose, clientVars, CallCurrent
      <4> QED BY <4>1
    <3>2. CASE c.kind # "close"
      <4>1. registry' = Record(p) BY <1>2, <1>6, <3>2, SignCloseEffect, SignEffect
                                  DEF Signed, GivenUp, Becomes
      <4>2. DOMAIN registry = Keys BY DEF Typed, TypeOK
      <4> QED BY <1>2, <2>1, <4>1, <4>2 DEF Record
    <3> QED BY <3>1, <3>2
  <2>3. /\ \A i \in Ids \ {c.id} : authorised'[i] = authorised[i]
        /\ authorised'[c.id] \in {c.cum, authorised[c.id]}
    BY <1>2, <1>6, AuthoriseEffect DEF Signed
  <2>4. authorised'[c.id] <= c.cum
    BY <1>2, <2>1, <2>3, EntryTypes DEF InOrder, RegistryOwns
  <2>5. RegistryOwns'
    <3>1. \A k \in Keys : registry'[k].id # 0 => registry'[k].cum >= authorised'[registry'[k].id]
      <4> SUFFICES ASSUME NEW k \in Keys, registry[k].id # 0
                   PROVE  registry'[k].cum >= authorised'[registry[k].id]
        BY <2>2
      <4>1. CASE k = c.key BY <1>2, <2>1, <2>2, <2>3, <2>4, <4>1, EntryTypes
      <4>2. CASE k # c.key
        <5>1. registry[k].id # c.id BY <1>2, <2>1, <4>2 DEF InOrder, RegistryOwns
        <5> QED BY <2>2, <2>3, <4>2, <5>1, EntryTypes DEF InOrder, RegistryOwns
      <4> QED BY <4>1, <4>2
    <3>2. \A i \in Ids : i > opened' => authorised'[i] = 0
      <4>1. c.id <= opened BY <1>2, <2>1 DEF InOrder, RegistryOwns
      <4>2. opened \in Nat /\ c.id \in Nat BY <1>2, CountTypes DEF Ids
      <4>3. \A i \in Ids : i > opened => i # c.id BY <4>1, <4>2 DEF Ids
      <4> QED BY <1>2, <2>3, <4>3 DEF InOrder, RegistryOwns
    <3> QED BY <1>2, <2>2, <3>1, <3>2, EntryTypes DEF InOrder, RegistryOwns
  <2>6. RegistryKnown' BY <1>2, <1>4, <2>2 DEF RegistryKnown
  <2>7. CallCurrent(p)'
    BY <1>2, <1>6, <2>1, <2>2 DEF Signed, Becomes, CallCurrent
  <2>8. CallsCurrent' BY <1>3, <2>7, OthersCurrent DEF InOrder
  <2> QED BY <2>5, <2>6, <2>8 DEF InOrder
<1>7. CASE Signed(p) /\ c.kind = "open"
  <2>1. /\ registry[c.key].id = 0 /\ c.id <= opened /\ authorised[c.id] = 0
        /\ \A k \in Keys : registry[k].id # c.id
    BY <1>1, <1>2, <1>7 DEF CallCurrent
  <2>2. /\ registry'[c.key].id = c.id /\ registry'[c.key].cum = c.cum
        /\ \A k \in Keys \ {c.key} : registry'[k] = registry[k]
    <3>1. registry' = Record(p)
      BY <1>2, <1>7, SignEffect, SignCloseEffect DEF Signed, GivenUp, Becomes
    <3>2. DOMAIN registry = Keys BY DEF Typed, TypeOK
    <3> QED BY <1>2, <3>1, <3>2 DEF Record
  <2>3. /\ \A i \in Ids \ {c.id} : authorised'[i] = authorised[i]
        /\ authorised'[c.id] \in {c.cum, authorised[c.id]}
    BY <1>2, <1>7, AuthoriseEffect DEF Signed
  <2>4. RegistryOwns'
    <3>1. /\ \A k \in Keys : registry'[k].id <= opened'
          /\ \A k, l \in Keys : registry'[k].id = registry'[l].id /\ registry'[k].id # 0 => k = l
      BY <1>2, <2>1, <2>2 DEF InOrder, RegistryOwns
    <3>2. \A i \in Ids : channel'[i].key # None => registry'[channel'[i].key].id = i
      <4> SUFFICES ASSUME NEW i \in Ids, channel[i].key # None
                   PROVE  registry'[channel[i].key].id = i
        BY <1>2
      <4>1. registry[channel[i].key].id = i /\ channel[i].key \in Keys
        BY EntryTypes DEF InOrder, RegistryOwns
      <4>2. channel[i].key # c.key BY <2>1, <4>1 DEF Ids
      <4> QED BY <2>2, <4>1, <4>2
    <3>3. \A i \in Ids : i > opened' => authorised'[i] = 0
      <4>1. opened \in Nat /\ c.id \in Nat BY <1>2, CountTypes DEF Ids
      <4>2. \A i \in Ids : i > opened => i # c.id BY <2>1, <4>1 DEF Ids
      <4> QED BY <1>2, <2>3, <4>2 DEF InOrder, RegistryOwns
    <3>4. \A k \in Keys : registry'[k].id # 0 => registry'[k].cum >= authorised'[registry'[k].id]
      <4> SUFFICES ASSUME NEW k \in Keys, registry'[k].id # 0
                   PROVE  registry'[k].cum >= authorised'[registry'[k].id]
        OBVIOUS
      <4>1. CASE k = c.key BY <1>2, <2>1, <2>2, <2>3, <4>1
      <4>2. CASE k # c.key
        BY <2>1, <2>2, <2>3, <4>2, EntryTypes DEF InOrder, RegistryOwns
      <4> QED BY <4>1, <4>2
    <3> QED BY <3>1, <3>2, <3>3, <3>4 DEF RegistryOwns
  <2>5. call'[p].pc = "sent" /\ call'[p].kind = "open" /\ call'[p].id = c.id
        /\ call'[p].key = c.key
    BY <1>7 DEF Signed, Becomes
  <2>6. RegistryKnown'
    BY <1>2, <1>4, <2>2, <2>5 DEF RegistryKnown
  <2>7. CallCurrent(p)'
    BY <2>2, <2>5 DEF CallCurrent
  <2>8. CallsCurrent' BY <1>3, <2>7, OthersCurrent DEF InOrder
  <2> QED BY <2>4, <2>6, <2>8 DEF InOrder
<1> QED BY <1>2, <1>5, <1>6, <1>7

\* An answer makes the channel known, or its open was in vain.
LEMMA AnswerInOrder ==
  ASSUME Typed, InOrder, OneBusy, ~raced',
         NEW p \in Calls, Arrive(p) \/ Return(p) \/ Lose(p)
  PROVE  InOrder'
<1> DEFINE c == call[p]
<1>1. CallCurrent(p) /\ UNCHANGED <<registry, opened, authorised, raced>>
  BY DEF InOrder, CallsCurrent, Arrive, Return, Lose, clientVars, historyVars
<1>2. /\ c.pc \in {"sent", "accepted", "refused"} /\ c.id \in Ids /\ c.key \in Keys
      /\ \A q \in Calls \ {p} : call'[q] = call[q]
      /\ call'[p].pc \in {"idle", "accepted", "refused"}
      /\ strayed \subseteq strayed'
  BY ArriveEffect, ReturnEffect, CallFacts DEF Becomes
<1>3. \A q \in Calls \ {p} : call[q].pc = "idle"
  BY <1>1, <1>2, Alone
<1>4. \A i \in Ids :
        /\ channel[i].known /\ i # c.id => channel'[i].known
        /\ \/ channel'[i].key = channel[i].key
           \/ i = c.id /\ c.pc = "sent" /\ c.kind = "open" /\ channel'[i].key = c.key
  <2>1. CASE Arrive(p) BY <2>1, ArriveEffect
  <2>2. CASE Return(p) \/ Lose(p)
    <3>1. channel' = channel BY <2>2 DEF Return, Lose
    <3> QED BY <3>1
  <2> QED BY <2>1, <2>2
<1>5. channel[c.id].known \/ c.id \in strayed \/ (c.pc = "sent" /\ c.kind = "open") =>
        channel'[c.id].known \/ c.id \in strayed'
  <2>1. CASE Arrive(p)
    <3>1. \/ channel'[c.id].known \/ c.id \in strayed'
          \/ c.kind # "open" /\ channel'[c.id].known = channel[c.id].known
      BY <2>1, ArriveEffect DEF Vouchers
    <3> QED BY <1>2, <3>1
  <2>2. CASE Return(p) \/ Lose(p)
    <3>1. channel' = channel BY <2>2 DEF Return, Lose
    <3> QED BY <1>2, <2>2, <3>1, ReturnEffect
  <2> QED BY <2>1, <2>2
<1>6. RegistryOwns'
  <2>1. \A i \in Ids : channel'[i].key # None => registry[channel'[i].key].id = i
    BY <1>1, <1>4 DEF InOrder, RegistryOwns, CallCurrent
  <2> QED BY <1>1, <2>1 DEF InOrder, RegistryOwns
<1>7. RegistryKnown'
  <2> SUFFICES ASSUME NEW k \in Keys, registry[k].id # 0
               PROVE  channel'[registry[k].id].known \/ registry[k].id \in strayed'
    BY <1>1 DEF RegistryKnown
  <2>1. \/ channel[registry[k].id].known \/ registry[k].id \in strayed
        \/ (c.pc = "sent" /\ c.kind = "open" /\ c.id = registry[k].id)
    BY <1>3 DEF InOrder, RegistryKnown
  <2>2. registry[k].id \in Ids BY EntryTypes
  <2> QED BY <1>2, <1>4, <1>5, <2>1, <2>2
<1>8. CallCurrent(p)'
  <2>1. call'[p].kind \in {c.kind, "none"} BY ArriveEffect, ReturnEffect DEF Becomes
  <2>2. c.kind # "recovered" BY <1>1 DEF CallCurrent
  <2> QED BY <1>2, <2>1, <2>2 DEF CallCurrent
<1>9. CallsCurrent'
  BY <1>2, <1>3, <1>8, OthersCurrent DEF InOrder
<1> QED BY <1>6, <1>7, <1>9 DEF InOrder

LEMMA SettleInOrder ==
  ASSUME Typed, InOrder, Settle
  PROVE  InOrder'
<1>1. UNCHANGED <<registry, opened, authorised, strayed, call>>
  BY DEF Settle, clientVars, historyVars
<1>2. \A i \in Ids : /\ channel'[i].key = channel[i].key /\ channel'[i].known = channel[i].known
                     /\ channel'[i].highest = channel[i].highest
  BY SettleEffect
<1>3. RegistryOwns' BY <1>1, <1>2 DEF InOrder, RegistryOwns
<1>4. RegistryKnown' BY <1>1, <1>2, EntryTypes DEF InOrder, RegistryKnown
<1>5. CallsCurrent'
  <2> SUFFICES ASSUME NEW p \in Calls PROVE CallCurrent(p)'
    BY DEF CallsCurrent
  <2>1. CallCurrent(p) BY DEF InOrder, CallsCurrent
  <2>2. call[p].pc \in {"sign", "sent"} => call[p].id \in Ids BY CallFacts
  <2> QED BY <1>1, <1>2, <2>1, <2>2 DEF CallCurrent
<1> QED BY <1>3, <1>4, <1>5 DEF InOrder

LEMMA NextCalm ==
  Typed /\ VouchersSigned /\ OneBusy /\ CalmInv /\ [Next]_vars => CalmInv'
<1> SUFFICES ASSUME Typed, VouchersSigned, OneBusy, CalmInv, [Next]_vars, ~raced', ~restarted'
             PROVE  InOrder'
  BY DEF CalmInv, Calm
<1>1. CASE UNCHANGED vars
  <2>1. InOrder BY <1>1 DEF vars, historyVars, CalmInv, Calm
  <2> QED BY <1>1, <2>1 DEF vars, clientVars, historyVars, InOrder, RegistryOwns,
                            RegistryKnown, CallsCurrent, CallCurrent
<1>2. CASE Next
  <2>1. ~Restart BY DEF Restart
  <2>2. UNCHANGED restarted /\ raced' \in {raced, TRUE, raced \/ Busy}
    BY <1>2, <2>1
    DEF Next, PayStart, EventStart, CloseStart, Recover, OpenContract, OpenPrecompile,
        SignVoucher, SignOpen, SignClose, Arrive, Return, Lose, Settle, historyVars
  <2>3. InOrder BY <2>2 DEF CalmInv, Calm, Typed, TypeOK
  <2> QED BY <1>2, <2>1, <2>3, StartInOrder, DecideInOrder, SignInOrder, AnswerInOrder,
             SettleInOrder DEF Next
<1> QED BY <1>1, <1>2

\* A refusal has its cause when it is made, and keeps it.
LEMMA NextRefused ==
  Typed /\ OneBusy /\ CalmInv /\ RefusedForCause /\ [Next]_vars => RefusedForCause'
<1> DEFINE Cause(q) ==
      \/ raced \/ restarted
      \/ call[q].id \in strayed \/ channel[call[q].id].gone
      \/ call[q].cum > channel[call[q].id].deposit
      \/ call[q].kind = "event" /\ call[q].cum <= channel[call[q].id].highest
      \/ call[q].kind = "close" /\ call[q].cum <= channel[call[q].id].settled
<1> SUFFICES ASSUME Typed, OneBusy, CalmInv, RefusedForCause, [Next]_vars,
                    NEW q \in Calls, call'[q].pc = "refused"
             PROVE  Cause(q)'
  BY DEF RefusedForCause
<1>1. ASSUME NEW p \in Calls, call[p].pc # "idle" \/ raced' = (raced \/ Busy),
             \A r \in Calls \ {p} : call'[r] = call[r], raced' \in {raced, raced \/ Busy},
             p # q
      PROVE  raced'
  <2>1. call[q].pc = "refused" BY <1>1
  <2> QED BY <1>1, <2>1 DEF OneBusy, Busy
<1>2. ASSUME NEW p \in Calls, PayStart(p) \/ EventStart(p) \/ CloseStart(p) PROVE raced'
  <2>1. raced' = (raced \/ Busy) BY <1>2 DEF PayStart, EventStart, CloseStart
  <2>2. call'[p].pc # "refused" /\ \A r \in Calls \ {p} : call'[r] = call[r]
    BY <1>2, PayEffect, EventEffect, CloseEffect DEF Becomes
  <2> QED BY <1>1, <2>1, <2>2
<1>3. ASSUME NEW p \in Calls, \/ Recover(p) \/ OpenContract(p) \/ OpenPrecompile(p)
                              \/ SignVoucher(p) \/ SignOpen(p) \/ SignClose(p)
                              \/ Return(p) \/ Lose(p)
      PROVE  raced'
  <2>1. raced' = raced
    BY <1>3 DEF Recover, OpenContract, OpenPrecompile, SignVoucher, SignOpen, SignClose,
                Return, Lose, historyVars
  <2>2. CASE Recover(p) \/ OpenContract(p) \/ OpenPrecompile(p)
    BY <1>1, <2>1, <2>2, RecoverEffect, OpenEffect DEF Becomes
  <2>3. CASE SignVoucher(p) \/ SignOpen(p) \/ SignClose(p)
    BY <1>1, <2>1, <2>3, SignEffect, SignCloseEffect DEF Signed, GivenUp, Becomes
  <2>4. CASE Return(p) \/ Lose(p)
    BY <1>1, <2>1, <2>4, ReturnEffect DEF Becomes
  <2> QED BY <1>3, <2>2, <2>3, <2>4
<1>4. ASSUME NEW p \in Calls, Arrive(p) PROVE Cause(q)'
  <2>1. UNCHANGED <<raced, restarted>> BY <1>4 DEF Arrive
  <2>2. call[p].pc = "sent" /\ \A r \in Calls \ {p} : call'[r] = call[r]
    BY <1>4, ArriveEffect DEF Becomes
  <2>3. CASE p # q BY <1>1, <2>1, <2>2, <2>3
  <2>4. CASE p = q
    <3> DEFINE i == call[q].id
               cum == call[q].cum
    <3>1. /\ i \in Ids /\ call'[q].id = i /\ call'[q].cum = cum /\ call'[q].kind = call[q].kind
          /\ cum \in Nat /\ call[q].kind \in Kinds
          /\ \/ call[q].kind = "open" /\ i \in strayed'
             \/ /\ call[q].kind \in Vouchers /\ channel'[i] = channel[i]
                /\ ~VoucherAcceptable(channel[i], cum) /\ strayed' = strayed
             \/ /\ call[q].kind = "close" /\ channel'[i] = channel[i] /\ strayed' = strayed
                /\ ~CloseAcceptable(channel[i], cum) \/ cum < channel[i].highest
      BY <1>4, <2>4, ArriveEffect, CallFacts DEF Becomes
    <3>2. SUFFICES ASSUME ~raced, ~restarted PROVE Cause(q)'
      BY <2>1
    <3>3. CallCurrent(q) BY <3>2 DEF CalmInv, Calm, InOrder, CallsCurrent
    <3>4. channel[i].highest \in Nat /\ channel[i].deposit \in Nat /\ channel[i].settled \in Nat
      BY <3>1, EntryTypes
    <3>5. CASE call[q].kind = "open" BY <3>1, <3>5 DEF Vouchers
    <3>6. CASE call[q].kind \in Vouchers
      <4>1. call[q].kind \in {"voucher", "event"} BY <3>3, <3>6 DEF CallCurrent, Vouchers
      <4>2. /\ channel[i].known \/ i \in strayed
            /\ call[q].kind = "voucher" => cum > channel[i].highest
        BY <2>2, <2>4, <3>3, <4>1 DEF CallCurrent
      <4> QED BY <3>1, <3>4, <4>1, <4>2 DEF VoucherAcceptable
    <3>7. CASE call[q].kind = "close"
      <4>1. (channel[i].known \/ i \in strayed) /\ cum >= channel[i].highest
        BY <2>2, <2>4, <3>3, <3>7 DEF CallCurrent
      <4> QED BY <3>1, <3>4, <3>7, <4>1 DEF CloseAcceptable, Vouchers
    <3> QED BY <3>1, <3>5, <3>6, <3>7
  <2> QED BY <2>3, <2>4
<1>5. CASE Settle
  <2>1. UNCHANGED <<call, raced, restarted, strayed>> BY <1>5 DEF Settle, historyVars
  <2>2. \A i \in Ids :
          /\ channel'[i].gone = channel[i].gone /\ channel'[i].deposit = channel[i].deposit
          /\ channel'[i].highest = channel[i].highest
          /\ channel'[i].settled >= channel[i].settled /\ channel'[i].settled \in Nat
    BY <1>5, SettleEffect, EntryTypes
  <2>3. call[q].id \in Ids /\ call[q].cum \in Nat BY <2>1, CallFacts
  <2>4. Cause(q) BY <2>1 DEF RefusedForCause
  <2> QED BY <2>1, <2>2, <2>3, <2>4, EntryTypes
<1>6. CASE Restart
  BY <1>6, RestartEffect
<1>7. CASE UNCHANGED vars
  BY <1>7 DEF vars, historyVars, RefusedForCause
<1> QED BY <1>2, <1>3, <1>4, <1>5, <1>6, <1>7 DEF Next

-----------------------------------------------------------------------------
(* The theorems.                                                           *)

LEMMA InitInv == Init => Inv
<1> SUFFICES ASSUME Init PROVE Inv
  OBVIOUS
<1>1. Typed BY InitTyped
<1>2. Earned \in Nat BY <1>1, EarnedTypes
<1>3. \A p \in Calls : call[p].pc = "idle" /\ call[p].kind = "none" /\ call[p].cum = 0
  BY NoCallFacts DEF Init
<1>4. \A i \in Ids : /\ channel[i].key = None /\ channel[i].deposit = 0 /\ channel[i].settled = 0
                     /\ channel[i].highest = 0 /\ authorised[i] = 0
  BY DEF Init, NoChannel
<1>5. \A k \in Keys : registry[k].id = 0 /\ registry[k].cum = 0
  BY DEF Init, NoEntry
<1>6. AmountsEarned BY <1>2, <1>3, <1>4, <1>5 DEF AmountsEarned
<1>7. DepositsCapped BY <1>3, <1>4, ProviderAssumption DEF DepositsCapped
<1>8. VouchersSigned BY <1>3, <1>4 DEF VouchersSigned
<1>9. OneBusy BY <1>3 DEF OneBusy
<1>10. InOrder
  <2>1. opened = 0 BY DEF Init
  <2> QED BY <1>3, <1>4, <1>5, <2>1
          DEF InOrder, RegistryOwns, RegistryKnown, CallsCurrent, CallCurrent
<1>11. RefusedForCause BY <1>3 DEF RefusedForCause
<1> QED BY <1>1, <1>6, <1>7, <1>8, <1>9, <1>10, <1>11 DEF Inv, CalmInv

LEMMA NextInv == Inv /\ [Next]_vars => Inv'
BY NextTyped, NextEarned, NextCapped, NextSigned, NextOneBusy, NextCalm, NextRefused DEF Inv

LEMMA Invariance == Spec => []Inv
BY InitInv, NextInv, PTL DEF Spec

\* Whatever the calls do together, the provider's state keeps its shape, and every
\* call that waits has what its next step reads (execute in session_provider.rs).
THEOREM TypeCorrect == Spec => []TypeOK
<1>1. Inv => TypeOK
  BY DEF Inv, Typed
<1> QED BY <1>1, Invariance, PTL

\* However calls overlap, get lost or follow a restart, no channel is authorised for
\* more than one Amount per call, and no deposit exceeds the cap (resolve_deposit).
THEOREM ExposureIsBounded == Spec => []ExposureBounded
<1>1. Inv => ExposureBounded
  <2> SUFFICES ASSUME Inv, NEW i \in Ids
               PROVE  /\ authorised[i] <= Amount * (pays + other)
                      /\ MaxDeposit # None => channel[i].deposit <= MaxDeposit
    BY DEF ExposureBounded
  <2>1. Typed /\ authorised[i] <= Earned /\ authorised[i] \in Nat
    BY EntryTypes DEF Inv, AmountsEarned
  <2>2. /\ Deciding \in Nat /\ pays + other \in Nat /\ Deciding <= pays + other
        /\ Earned \in Nat
    BY <2>1, EarnedTypes, CountTypes DEF Deciding
  <2>3. Earned <= Amount * (pays + other)
    BY <2>2, Product DEF Earned
  <2>4. Amount * (pays + other) \in Nat
    BY <2>2, ProviderAssumption
  <2> QED BY <2>1, <2>2, <2>3, <2>4 DEF Inv, DepositsCapped
<1> QED BY <1>1, Invariance, PTL

\* A client that makes one request after another, and has kept its registry, is never
\* refused because its amount is stale, whatever the network has lost.
THEOREM RefusalsHaveCause == Spec => []RefusedForCause
<1>1. Inv => RefusedForCause
  BY DEF Inv
<1> QED BY <1>1, Invariance, PTL

\* Only calls that overlap, or a lost registry, open a second channel for a key.
THEOREM ChannelsAreUnique == Spec => []OneChannelPerKey
<1>1. Inv => OneChannelPerKey
  BY DEF Inv, CalmInv, Calm, InOrder, RegistryOwns, OneChannelPerKey
<1> QED BY <1>1, Invariance, PTL

\* What the registry of cumulative() reads is at least what was signed, unless two
\* calls have put back copies of the same entry.
THEOREM RegistryCovers == Spec => []RegistryCoversVouchers
<1>1. Inv => RegistryCoversVouchers
  BY DEF Inv, CalmInv, Calm, InOrder, RegistryOwns, RegistryCoversVouchers
<1> QED BY <1>1, Invariance, PTL
================================================================================
