--------------------------- MODULE PaidRequestProofs ---------------------------
(***************************************************************************)
(* Proofs about PaidRequest, for any number of requests and routes.        *)
(*                                                                         *)
(* A credential is never forgotten, and every payment but a plain transfer *)
(* is marked by the request that made it: who carries a payment can be     *)
(* told from the state.  The rest follows what becomes of a payment, from  *)
(* the offer it was made for to the delivery or the cause of its loss.     *)
(***************************************************************************)
EXTENDS PaidRequest, FiniteSetTheorems, TLAPS

-----------------------------------------------------------------------------
(* The invariants.                                                         *)

Fields == {"pc", "route", "clones", "ranking", "sent", "offers", "cred", "outcome", "ended"}

Before == {"new", "asked", "challenged", "chosen"}
Carrying == {"retried", "admitted", "settled"}

\* The shape of a request, and what it holds as far as it has come.
Fits(c) ==
  /\ DOMAIN c = Fields
  /\ c.pc \in Before \cup Carrying \cup {"done"}
  /\ c.pc \in Before => c.cred = <<>>
  /\ c.pc \in Carrying => c.cred # <<>>
  /\ c.pc \in {"asked", "challenged", "chosen"} \/ c.cred # <<>> => c.route \in Routes
  /\ c.pc # "done" => c.outcome = "none"
  /\ c.cred = <<>> => c.outcome \in {"none", "error"}
  /\ c.ranking \in Wishes \cup {NoPreference} /\ c.sent \in Wishes \cup {NoPreference}
  /\ c.pc = "challenged" => IsFiniteSet(DOMAIN c.offers) /\ DOMAIN c.offers \subseteq Nat

Shaped ==
  /\ DOMAIN call = Calls /\ \A id \in Calls : Fits(call[id])
  /\ key \in {0, 1} /\ raised \in {0, 1} /\ era \in {0, 1} /\ since \in {0, era}
  /\ era = 0 => key = 0 /\ raised = 0

\* Every credential was made by a provider or a handler for the amount of its
\* challenge; all but transfers say by which request, which still has it.
Made(x) ==
  LET c == x.challenge
      pay == x.pay
  IN /\ DOMAIN x = {"challenge", "pay"} /\ DOMAIN pay = {"how", "amount", "mark", "at"}
     /\ pay.how \in {"open", "voucher", "spt", "tx", "hash"}
     /\ pay.amount = c.amount
     /\ pay.how \in {"open", "voucher"} <=> c.intent = "session"
     /\ pay.how = "spt" <=> c.intent # "session" /\ c.method = "stripe"
     /\ pay.how # "hash" => ~IsExpired(c, pay.at)
     /\ pay.how # "tx" => pay.mark \in Paying /\ Cred(pay.mark) = x
     /\ pay.how = "hash" => ~HandedOn(pay.mark)

OpenMade == \E other \in Paying : Cred(other).pay.how = "open"

CredsMade ==
  /\ \A id \in Paying : Made(Cred(id))
  /\ opened => OpenMade
  /\ \A id \in Paying : Cred(id).pay.how = "voucher" => OpenMade

\* What the gate has let through.
Admitted ==
  \A id \in Calls :
    call[id].pc \in {"admitted", "settled"} =>
      /\ call[id].route \in Stating => Cred(id).challenge.amount = price[call[id].route]
      /\ call[id].route \notin Metered => Cred(id).challenge.intent # "session"

Charges(x) == x.challenge.intent # "session"

\* What is taken when a credential is settled.
Entry(x) == IF Charges(x) /\ x.challenge.method = "stripe" THEN x ELSE x.pay

\* Stripe records what it has charged; the tempo method does where it has a store.
Records(x) == x.challenge.method = "stripe" \/ recording

\* A charge that is settled has its entry, and no other request has it.
SettledHolds(id) ==
  /\ Cred(id).pay \in moved
  /\ Charges(Cred(id)) /\ Records(Cred(id)) =>
       /\ Entry(Cred(id)) \in used
       /\ \A d \in OnRecord : d.pay # Cred(id).pay
       /\ \A other \in Calls \ {id} :
            call[other].pc = "settled" => Cred(other).pay # Cred(id).pay

ServedHolds(d) ==
  /\ d.call \in Paying /\ call[d.call].pc = "done" /\ d.pay = Cred(d.call).pay
  /\ d.era \in {0, era}
  /\ Charges(Cred(d.call)) /\ d \in OnRecord => Entry(Cred(d.call)) \in used

SettledOnce ==
  /\ \A id \in Calls : call[id].pc = "settled" => SettledHolds(id)
  /\ \A d \in served : ServedHolds(d)

\* A payment has been served for, is about to be, or has its excuse.
Accounted(pay) ==
  \/ \E d \in served : d.pay = pay
  \/ pay.how = "open" \/ Redeployed
  \/ \E id \in Carriers(pay) :
       call[id].pc = "settled" \/ call[id].outcome = "lost" \/ id \in troubled

\* Whoever took an entry has gone on.
UsedBy ==
  \A entry \in used :
    \E id \in Paying :
      /\ call[id].pc \in {"settled", "done"}
      /\ \/ Cred(id) = entry
         \/ Cred(id).pay = entry /\ (entry.how = "hash" => Accounted(entry))

\* The request whose caller broadcast the transfer has not come to the server's
\* method yet, or was turned away in time.
Pending(pay) ==
  LET id == pay.mark
  IN /\ pay.how = "hash" /\ id \in Carriers(pay) /\ ~HandedOn(id)
     /\ \/ call[id].pc \in {"retried", "admitted"}
        \/ call[id].pc = "done" /\ (TooLate(id) \/ Garbled(id))

MovedFor == \A pay \in moved : Accounted(pay) \/ Pending(pay)

\* A challenge the server would admit today, unless its opaque was lost.
Genuine(r, c) ==
  c.opaque = PinnedTo[r] =>
    /\ c.id = ChallengeId(0, c) /\ c.amount = BasePrice[r]
    /\ IF GateOf[r] = "session"
         THEN c.method = "tempo" /\ c.intent = "session"
         ELSE /\ c.intent = "charge" /\ c.memo = MemoOf[r]
              /\ \E i \in DOMAIN OfferedBy[r] : c.method = OfferedBy[r][i]

OffersGenuine ==
  ~Redeployed =>
    \A id \in Calls :
      LET c == call[id] IN
      /\ c.pc = "challenged" => \A i \in DOMAIN c.offers : Genuine(c.route, c.offers[i])
      /\ c.pc = "chosen" \/ c.cred # <<>> => Genuine(c.route, c.offers[1])

Inv ==
  /\ Shaped /\ CredsMade /\ Admitted /\ SettledOnce
  /\ UsedBy /\ MovedFor /\ OffersGenuine /\ RefusedForCause

-----------------------------------------------------------------------------
(* What a client or a server chooses from the offers is one of them.       *)

\* The elements of K before i, by an order given as pairs of an earlier and a later.
Ahead(K, B, i) == {j \in K : <<j, i>> \in B}

\* Of the elements of a finite set in a strict total order, one has n - 1 before it.
LEMMA RankExists ==
  ASSUME NEW K, IsFiniteSet(K), NEW B,
         \A i \in K : <<i, i>> \notin B,
         \A i, j, k \in K : <<i, j>> \in B /\ <<j, k>> \in B => <<i, k>> \in B,
         \A i, j \in K : i # j => <<i, j>> \in B \/ <<j, i>> \in B,
         NEW n \in 1..Cardinality(K)
  PROVE  \E i \in K : Cardinality(Ahead(K, B, i)) = n - 1
<1> DEFINE Earlier(i) == Ahead(K, B, i)
           T == 0..(Cardinality(K) - 1)
           f == [i \in K |-> Cardinality(Earlier(i))]
<1>1. Cardinality(K) \in Nat /\ n \in Nat /\ n >= 1 /\ n <= Cardinality(K)
  BY FS_CardinalityType
<1>2. \A i \in K : IsFiniteSet(Earlier(i)) /\ Cardinality(Earlier(i)) \in T
  <2> TAKE i \in K
  <2>1. Earlier(i) \subseteq K /\ Earlier(i) # K
    BY DEF Ahead
  <2> HIDE DEF Earlier
  <2>2. /\ IsFiniteSet(Earlier(i)) /\ Cardinality(Earlier(i)) <= Cardinality(K)
        /\ Cardinality(K) # Cardinality(Earlier(i))
    BY <2>1, FS_Subset
  <2>3. Cardinality(Earlier(i)) \in Nat
    BY <2>2, FS_CardinalityType
  <2> QED BY <1>1, <2>2, <2>3
<1>3. ASSUME NEW i \in K, NEW j \in K, <<i, j>> \in B
      PROVE  Cardinality(Earlier(i)) # Cardinality(Earlier(j))
  <2>1. Earlier(i) \subseteq Earlier(j) /\ Earlier(i) # Earlier(j)
    BY <1>3 DEF Ahead
  <2> HIDE DEF Earlier
  <2> QED BY <1>2, <2>1, FS_Subset
<1> HIDE DEF Earlier
<1>4. f \in Injection(K, T)
  <2>1. f \in [K -> T] BY <1>2
  <2>2. \A i, j \in K : f[i] = f[j] => i = j BY <1>3
  <2> QED BY <2>1, <2>2 DEF Injection, IsInjective
<1>5. IsFiniteSet(T) /\ Cardinality(T) = Cardinality(K)
  <2>1. 0 \in Int /\ Cardinality(K) - 1 \in Int /\ Cardinality(K) - 1 >= 0
    BY <1>1
  <2> QED BY <1>1, <2>1, FS_Interval
<1>6. f \in Surjection(K, T)
  BY <1>4, <1>5, FS_Injection
<1>7. n - 1 \in T
  BY <1>1
<1>8. \E i \in K : f[i] = n - 1
  BY <1>6, <1>7 DEF Surjection
<1> QED BY <1>8 DEF Earlier

\* The offers a preference leaves.
LEMMA RankedFrom ==
  ASSUME NEW offers, IsFiniteSet(DOMAIN offers), DOMAIN offers \subseteq Nat,
         NEW prefs \in Wishes \cup {NoPreference}
  PROVE  /\ IsFiniteSet(DOMAIN Rank(offers, prefs)) /\ DOMAIN Rank(offers, prefs) \subseteq Nat
         /\ \A n \in DOMAIN Rank(offers, prefs) :
              \E i \in DOMAIN offers : Rank(offers, prefs)[n] = offers[i]
         /\ Rank(offers, prefs) # <<>> => 1 \in DOMAIN Rank(offers, prefs)
<1> DEFINE W(i) == Weight(prefs, offers[i])
           K == {i \in DOMAIN offers : W(i) > 0}
           Prior(i, j) == W(i) > W(j) \/ (W(i) = W(j) /\ i < j)
           B == {x \in K \X K : Prior(x[1], x[2])}
           First(n) == CHOOSE i \in K : Cardinality({j \in K : Prior(j, i)}) = n - 1
<1>1. \A i \in DOMAIN offers : W(i) \in Int
  <2> TAKE i \in DOMAIN offers
  <2>1. CASE \E p \in prefs : p[1] = offers[i].method
    <3>1. (CHOOSE p \in prefs : p[1] = offers[i].method) \in prefs
      BY <2>1
    <3>2. prefs \in Wishes
      BY <2>1 DEF NoPreference
    <3> QED BY <2>1, <3>1, <3>2, PaidAssumption DEF Weight
  <2>2. CASE ~ \E p \in prefs : p[1] = offers[i].method
    BY <2>2 DEF Weight, None
  <2> QED BY <2>1, <2>2
<1> HIDE DEF W
<1>2. IsFiniteSet(K) /\ K \subseteq DOMAIN offers
  BY FS_Subset, K \subseteq DOMAIN offers
<1>3. Rank(offers, prefs) = [n \in 1..Cardinality(K) |-> offers[First(n)]]
  BY DEF Rank, W
<1>4. Cardinality(K) \in Nat
  BY <1>2, FS_CardinalityType
<1>5. ASSUME NEW n \in 1..Cardinality(K) PROVE First(n) \in K
  <2>1. /\ \A i \in K : <<i, i>> \notin B
        /\ \A i, j, k \in K : <<i, j>> \in B /\ <<j, k>> \in B => <<i, k>> \in B
        /\ \A i, j \in K : i # j => <<i, j>> \in B \/ <<j, i>> \in B
    BY <1>1
  <2>2. \A i, j \in K : <<j, i>> \in B <=> Prior(j, i)
    OBVIOUS
  <2> HIDE DEF B, Prior, K
  <2>3. PICK i \in K : Cardinality(Ahead(K, B, i)) = n - 1
    BY <1>2, <2>1, RankExists
  <2>4. Ahead(K, B, i) = {j \in K : Prior(j, i)}
    BY <2>2 DEF Ahead
  <2>5. \E m \in K : Cardinality({j \in K : Prior(j, m)}) = n - 1
    BY <2>3, <2>4
  <2> QED BY <2>5
<1> HIDE DEF K, First
<1>6. /\ DOMAIN Rank(offers, prefs) = 1..Cardinality(K)
      /\ \A n \in 1..Cardinality(K) : Rank(offers, prefs)[n] = offers[First(n)]
  BY <1>3
<1>7. IsFiniteSet(1..Cardinality(K)) /\ 1..Cardinality(K) \subseteq Nat
  BY <1>4, FS_Interval
<1>8. Cardinality(K) = 0 => Rank(offers, prefs) = <<>>
  BY <1>3
<1> QED BY <1>2, <1>4, <1>5, <1>6, <1>7, <1>8

LEMMA PickExists ==
  ASSUME NEW K, IsFiniteSet(K), K \subseteq Nat, NEW n \in 1..Cardinality(K)
  PROVE  \E i \in K : Cardinality({j \in K : j < i}) = n - 1
<1> DEFINE B == {x \in K \X K : x[1] < x[2]}
<1>1. /\ \A i \in K : <<i, i>> \notin B
      /\ \A i, j, k \in K : <<i, j>> \in B /\ <<j, k>> \in B => <<i, k>> \in B
      /\ \A i, j \in K : i # j => <<i, j>> \in B \/ <<j, i>> \in B
  OBVIOUS
<1>2. \A i, j \in K : <<j, i>> \in B <=> j < i
  OBVIOUS
<1> HIDE DEF B
<1>3. PICK i \in K : Cardinality(Ahead(K, B, i)) = n - 1
  BY <1>1, RankExists
<1>4. Ahead(K, B, i) = {j \in K : j < i}
  BY <1>2 DEF Ahead
<1> QED BY <1>3, <1>4

\* The offers that pass a test, in their order: K is where they are.
Nth(K, n) == CHOOSE i \in K : Cardinality({j \in K : j < i}) = n - 1

Picked(offers, K) == [n \in 1..Cardinality(K) |-> offers[Nth(K, n)]]

LEMMA PickedFrom ==
  ASSUME NEW offers, IsFiniteSet(DOMAIN offers), DOMAIN offers \subseteq Nat,
         NEW K \in SUBSET DOMAIN offers
  PROVE  /\ IsFiniteSet(DOMAIN Picked(offers, K)) /\ DOMAIN Picked(offers, K) \subseteq Nat
         /\ \A n \in DOMAIN Picked(offers, K) :
              \E i \in DOMAIN offers : Picked(offers, K)[n] = offers[i]
         /\ Picked(offers, K) # <<>> => 1 \in DOMAIN Picked(offers, K)
<1>1. IsFiniteSet(K) /\ K \subseteq Nat
  BY FS_Subset
<1>2. Cardinality(K) \in Nat
  BY <1>1, FS_CardinalityType
<1>3. ASSUME NEW n \in 1..Cardinality(K) PROVE Nth(K, n) \in K
  <2>1. \E i \in K : Cardinality({j \in K : j < i}) = n - 1
    BY <1>1, PickExists
  <2> QED BY <2>1 DEF Nth
<1>4. /\ DOMAIN Picked(offers, K) = 1..Cardinality(K)
      /\ \A n \in 1..Cardinality(K) : Picked(offers, K)[n] = offers[Nth(K, n)]
  BY DEF Picked
<1>5. IsFiniteSet(1..Cardinality(K)) /\ 1..Cardinality(K) \subseteq Nat
  BY <1>2, FS_Interval
<1>6. Cardinality(K) = 0 => Picked(offers, K) = <<>>
  BY DEF Picked
<1> QED BY <1>2, <1>3, <1>4, <1>5, <1>6

\* What a client would pay is one of the offers it was given.
LEMMA PayableFrom ==
  ASSUME NEW offers, IsFiniteSet(DOMAIN offers), DOMAIN offers \subseteq Nat,
         NEW prefs \in Wishes \cup {NoPreference}, NEW t
  PROVE  /\ \A n \in DOMAIN Payable(offers, prefs, t) :
              \E i \in DOMAIN offers : Payable(offers, prefs, t)[n] = offers[i]
         /\ Payable(offers, prefs, t) # <<>> => 1 \in DOMAIN Payable(offers, prefs, t)
<1> DEFINE K == {i \in DOMAIN offers : <<offers[i].method, offers[i].intent>> \in Supports}
           a == Picked(offers, K)
           L == {i \in DOMAIN a : ~IsExpired(a[i], t)}
           b == Picked(a, L)
<1>1. Supported(offers) = a
  BY DEF Supported, Those, Picked, Nth
<1>2. K \in SUBSET DOMAIN offers
  OBVIOUS
<1> HIDE DEF K
<1>3. /\ IsFiniteSet(DOMAIN a) /\ DOMAIN a \subseteq Nat
      /\ \A n \in DOMAIN a : \E i \in DOMAIN offers : a[n] = offers[i]
  BY <1>2, PickedFrom
<1> HIDE DEF a
<1>4. L \in SUBSET DOMAIN a
  OBVIOUS
<1>5. Payable(offers, prefs, t) = IF prefs = NoPreference THEN b ELSE Rank(b, prefs)
  BY <1>1 DEF Payable, Preferred, Those, Picked, Nth
<1> HIDE DEF L
<1>6. /\ IsFiniteSet(DOMAIN b) /\ DOMAIN b \subseteq Nat
      /\ \A n \in DOMAIN b : \E i \in DOMAIN a : b[n] = a[i]
      /\ b # <<>> => 1 \in DOMAIN b
  BY <1>3, <1>4, PickedFrom
<1> HIDE DEF b
<1>7. \A n \in DOMAIN b : \E i \in DOMAIN offers : b[n] = offers[i]
  BY <1>3, <1>6
<1>8. /\ \A n \in DOMAIN Rank(b, prefs) : \E i \in DOMAIN b : Rank(b, prefs)[n] = b[i]
      /\ Rank(b, prefs) # <<>> => 1 \in DOMAIN Rank(b, prefs)
  BY <1>6, RankedFrom
<1> QED BY <1>5, <1>6, <1>7, <1>8

-----------------------------------------------------------------------------
(* What the server offers it admits.                                       *)

ChallengeFields == {"id", "method", "intent", "amount", "memo", "expires", "opaque"}

LEMMA WithIdFields ==
  ASSUME NEW k, NEW c, DOMAIN c = ChallengeFields
  PROVE  LET o == WithId(k, c)
         IN /\ DOMAIN o = ChallengeFields
            /\ o.id = ChallengeId(k, o) /\ o.method = c.method /\ o.intent = c.intent
            /\ o.amount = c.amount /\ o.memo = c.memo /\ o.expires = c.expires
            /\ o.opaque = c.opaque
BY DEF WithId, ChallengeId, ChallengeFields

LEMMA OfferFields ==
  ASSUME NEW r \in Routes, NEW k, NEW p, NEW t, NEW nano, NEW i \in DOMAIN OfferedBy[r]
  PROVE  LET o == Offers(r, k, p, t, nano)[i]
         IN /\ DOMAIN o = ChallengeFields /\ o.opaque = PinnedTo[r]
            /\ o.id = ChallengeId(k, o) /\ o.amount = p
            /\ IF GateOf[r] = "session"
                 THEN o.method = "tempo" /\ o.intent = "session"
                 ELSE o.method = OfferedBy[r][i] /\ o.intent = "charge" /\ o.memo = MemoOf[r]
<1> DEFINE e == ExpiresFrom(t, nano)
           a == [id |-> <<>>, method |-> OfferedBy[r][i], intent |-> "charge", amount |-> p,
                 memo |-> MemoOf[r], expires |-> e, opaque |-> None]
           s == [id |-> <<>>, method |-> "tempo", intent |-> "session", amount |-> p,
                 memo |-> None, expires |-> e, opaque |-> None]
           c == IF GateOf[r] = "session" THEN WithId(k, s) ELSE WithId(k, a)
           q == [c EXCEPT !.opaque = PinnedTo[r]]
<1>1. /\ DOMAIN c = ChallengeFields /\ c.id = ChallengeId(k, c) /\ c.amount = p /\ c.opaque = None
      /\ IF GateOf[r] = "session"
           THEN c.method = "tempo" /\ c.intent = "session"
           ELSE c.method = OfferedBy[r][i] /\ c.intent = "charge" /\ c.memo = MemoOf[r]
  <2>1. /\ DOMAIN a = ChallengeFields /\ DOMAIN s = ChallengeFields
        /\ a.method = OfferedBy[r][i] /\ a.intent = "charge" /\ a.amount = p
        /\ a.memo = MemoOf[r] /\ a.opaque = None
        /\ s.method = "tempo" /\ s.intent = "session" /\ s.amount = p /\ s.opaque = None
    BY DEF ChallengeFields
  <2> HIDE DEF a, s
  <2>2. CASE GateOf[r] = "session"
    BY <2>1, <2>2, WithIdFields
  <2>3. CASE GateOf[r] # "session"
    BY <2>1, <2>3, WithIdFields
  <2> QED BY <2>2, <2>3
<1>2. Offers(r, k, p, t, nano)[i] = PinOpaque(k, c, PinnedTo[r])
  BY DEF Offers, SessionChallenge, ChargeChallenge
<1> HIDE DEF c
<1>3. /\ DOMAIN q = ChallengeFields /\ q.method = c.method /\ q.intent = c.intent
      /\ q.amount = c.amount /\ q.memo = c.memo /\ q.opaque = PinnedTo[r]
  BY <1>1 DEF ChallengeFields
<1> HIDE DEF q
<1>4. CASE PinnedTo[r] = None
  BY <1>1, <1>2, <1>4 DEF PinOpaque
<1>5. CASE PinnedTo[r] # None
  <2>1. Offers(r, k, p, t, nano)[i] = WithId(k, q)
    BY <1>2, <1>5 DEF PinOpaque, q
  <2> QED BY <1>1, <1>3, <2>1, WithIdFields
<1> QED BY <1>4, <1>5

LEMMA OffersShape ==
  ASSUME NEW r \in Routes, NEW k, NEW p, NEW t, NEW nano
  PROVE  /\ IsFiniteSet(DOMAIN Offers(r, k, p, t, nano))
         /\ DOMAIN Offers(r, k, p, t, nano) \subseteq Nat
<1> DEFINE n == Len(OfferedBy[r])
<1>1. OfferedBy[r] \in Seq(STRING)
  BY GateAssumption
<1>2. DOMAIN OfferedBy[r] = 1..n /\ n \in Nat
  BY <1>1
<1>3. DOMAIN Offers(r, k, p, t, nano) = DOMAIN OfferedBy[r]
  BY DEF Offers
<1> HIDE DEF n
<1>4. IsFiniteSet(1..n) /\ 1..n \subseteq Nat
  BY <1>2, FS_Interval
<1> QED BY <1>2, <1>3, <1>4

\* A challenge loses its opaque on the way, or says what its route does.
LEMMA SentGenuine ==
  ASSUME NEW r \in Routes, NEW prefs \in Wishes \cup {NoPreference}, NEW t, NEW nano,
         NEW sent, sent \in {Offers(r, 0, BasePrice[r], t, nano),
                             Compose(Offers(r, 0, BasePrice[r], t, nano), prefs)}
  PROVE  \A i \in DOMAIN Transmitted(r, sent) : Genuine(r, Transmitted(r, sent)[i])
<1> DEFINE offers == Offers(r, 0, BasePrice[r], t, nano)
<1>1. DOMAIN offers = DOMAIN OfferedBy[r]
  BY DEF Offers
<1>2. IsFiniteSet(DOMAIN offers) /\ DOMAIN offers \subseteq Nat
  BY OffersShape
<1>3. \A i \in DOMAIN sent : \E j \in DOMAIN OfferedBy[r] : sent[i] = offers[j]
  <2>1. \A n \in DOMAIN Rank(offers, prefs) :
          \E i \in DOMAIN offers : Rank(offers, prefs)[n] = offers[i]
    BY <1>2, RankedFrom
  <2> QED BY <1>1, <2>1 DEF Compose
<1>4. \A i \in DOMAIN sent :
        LET o == sent[i]
        IN /\ DOMAIN o = ChallengeFields /\ o.opaque = PinnedTo[r]
           /\ o.id = ChallengeId(0, o) /\ o.amount = BasePrice[r]
           /\ IF GateOf[r] = "session"
                THEN o.method = "tempo" /\ o.intent = "session"
                ELSE /\ o.intent = "charge" /\ o.memo = MemoOf[r]
                     /\ \E j \in DOMAIN OfferedBy[r] : o.method = OfferedBy[r][j]
  BY <1>3, OfferFields
<1>5. CASE Description[r] = "foreign"
  BY <1>5 DEF Transmitted
<1>6. CASE Description[r] = "payment"
  <2>1. Transmitted(r, sent) = [i \in DOMAIN sent |-> [sent[i] EXCEPT !.opaque = None]]
    BY <1>6 DEF Transmitted
  <2> SUFFICES ASSUME NEW i \in DOMAIN sent PROVE Genuine(r, [sent[i] EXCEPT !.opaque = None])
    BY <2>1
  <2> DEFINE o == sent[i]
             g == [o EXCEPT !.opaque = None]
  <2>2. /\ DOMAIN o = ChallengeFields /\ o.opaque = PinnedTo[r]
        /\ o.id = ChallengeId(0, o) /\ o.amount = BasePrice[r]
        /\ IF GateOf[r] = "session"
             THEN o.method = "tempo" /\ o.intent = "session"
             ELSE /\ o.intent = "charge" /\ o.memo = MemoOf[r]
                  /\ \E j \in DOMAIN OfferedBy[r] : o.method = OfferedBy[r][j]
    BY <1>4
  <2> HIDE DEF o
  <2>3. /\ g.opaque = None /\ g.id = o.id /\ g.amount = o.amount /\ g.method = o.method
        /\ g.intent = o.intent /\ g.memo = o.memo /\ g.expires = o.expires
    BY <2>2 DEF ChallengeFields
  <2> HIDE DEF g
  <2>4. Genuine(r, g)
    BY <2>2, <2>3 DEF Genuine, ChallengeId
  <2> QED BY <2>4 DEF g, o
<1>7. CASE Description[r] \notin {"foreign", "payment"}
  <2>1. Transmitted(r, sent) = sent
    BY <1>7 DEF Transmitted
  <2> QED BY <1>4, <2>1 DEF Genuine
<1> QED BY <1>5, <1>6, <1>7

\* The gate refuses no challenge of its own, unless it has expired.
LEMMA GenuineAdmitted ==
  ASSUME NEW r \in Routes, NEW c, NEW t, Genuine(r, c), c.opaque = PinnedTo[r],
         ~IsExpired(c, t)
  PROVE  Admits(r, c, 0, BasePrice[r], t)
<1>1. HmacAndExpiry(c, 0, t) /\ OpaqueMatches(r, c)
  BY DEF Genuine, HmacAndExpiry, OpaqueMatches
<1>2. CASE GateOf[r] = "session"
  <2>1. VerifySession(r, c, 0, t)
    BY <1>1, <1>2 DEF Genuine, VerifySession
  <2> QED BY <1>2, <2>1 DEF Admits
<1>3. CASE GateOf[r] = "composed"
  <2>1. Handler(r, c) = c.method /\ c.intent = "charge"
    BY <1>3 DEF Genuine, Handler
  <2>2. ComposeVerify(r, c, 0, t)
    BY <1>1, <2>1 DEF ComposeVerify, VerifyCharge, PinnedFields
  <2> QED BY <1>3, <2>2 DEF Admits
<1>4. CASE GateOf[r] \in {"layer", "extractor"}
  <2>1. c.method = OfferedBy[r][1] /\ c.intent = "charge"
    <3>1. PICK i \in DOMAIN OfferedBy[r] : c.method = OfferedBy[r][i]
      BY <1>4 DEF Genuine
    <3>2. DOMAIN OfferedBy[r] = 1..1
      BY <1>4, GateAssumption
    <3>3. i = 1 BY <3>1, <3>2
    <3> QED BY <1>4, <3>1, <3>3 DEF Genuine
  <2>2. MatchesExpected(r, c, BasePrice[r])
    BY <1>4 DEF Genuine, MatchesExpected
  <2>3. VerifyCharge(r, OfferedBy[r][1], c, 0, t)
    BY <1>1, <2>1 DEF VerifyCharge, PinnedFields
  <2> QED BY <1>4, <2>2, <2>3 DEF Admits
<1> QED BY <1>2, <1>3, <1>4, GateAssumption

\* What arrives can be told apart by its place.
LEMMA SentShape ==
  ASSUME NEW r \in Routes, NEW k, NEW p, NEW t, NEW nano,
         NEW prefs \in Wishes \cup {NoPreference},
         NEW sent, sent \in {Offers(r, k, p, t, nano), Compose(Offers(r, k, p, t, nano), prefs)}
  PROVE  /\ IsFiniteSet(DOMAIN Transmitted(r, sent)) /\ DOMAIN Transmitted(r, sent) \subseteq Nat
<1> DEFINE offers == Offers(r, k, p, t, nano)
<1>1. IsFiniteSet(DOMAIN offers) /\ DOMAIN offers \subseteq Nat
  BY OffersShape
<1> HIDE DEF offers
<1>2. IsFiniteSet(DOMAIN Rank(offers, prefs)) /\ DOMAIN Rank(offers, prefs) \subseteq Nat
  BY <1>1, RankedFrom
<1>3. IsFiniteSet(DOMAIN sent) /\ DOMAIN sent \subseteq Nat
  BY <1>1, <1>2 DEF Compose, offers
<1>4. DOMAIN Transmitted(r, sent) = {} \/ DOMAIN Transmitted(r, sent) = DOMAIN sent
  BY DEF Transmitted
<1> QED BY <1>3, <1>4, FS_EmptySet

-----------------------------------------------------------------------------
(* What a step does to the request that takes it.                          *)

Only(id) ==
  /\ DOMAIN call' = Calls /\ DOMAIN call'[id] = Fields
  /\ \A other \in Calls \ {id} : call'[other] = call[other]

Stays(id) ==
  /\ call'[id].cred = call[id].cred /\ call'[id].route = call[id].route
  /\ call'[id].offers = call[id].offers
  /\ call'[id].ranking = call[id].ranking /\ call'[id].sent = call[id].sent

GivesUp(id) ==
  /\ call'[id].pc = "done" /\ call'[id].outcome = "error" /\ call'[id].cred = <<>>
  /\ call'[id].ranking = NoPreference /\ call'[id].sent = NoPreference

LEMMA GoesEffect ==
  ASSUME Shaped, NEW id \in Calls, NEW pc, Goes(id, pc)
  PROVE  Only(id) /\ Stays(id) /\ call'[id].pc = pc /\ call'[id].outcome = call[id].outcome
<1>1. DOMAIN call = Calls /\ DOMAIN call[id] = Fields
  BY DEF Shaped, Fits
<1>2. call'[id] = [call[id] EXCEPT !.pc = pc]
  BY <1>1 DEF Goes
<1>3. DOMAIN call'[id] = Fields /\ call'[id].pc = pc /\ call'[id].outcome = call[id].outcome
  BY <1>1, <1>2 DEF Fields
<1>4. Stays(id)
  BY <1>1, <1>2 DEF Fields, Stays
<1>5. DOMAIN call' = Calls /\ \A other \in Calls \ {id} : call'[other] = call[other]
  BY <1>1 DEF Goes
<1> QED BY <1>3, <1>4, <1>5 DEF Only

LEMMA EndsEffect ==
  ASSUME NEW request, DOMAIN request = Fields, NEW outcome
  PROVE  LET e == EndsWith(request, outcome) IN
         /\ DOMAIN e = Fields /\ e.pc = "done"
         /\ request.cred = <<>> =>
              /\ e.outcome = "error" /\ e.cred = <<>>
              /\ e.ranking = NoPreference /\ e.sent = NoPreference
         /\ request.cred # <<>> =>
              /\ e.outcome = outcome /\ e.ended = now /\ e.cred = request.cred
              /\ e.route = request.route /\ e.offers = request.offers
              /\ e.ranking = request.ranking /\ e.sent = request.sent
BY DEF EndsWith, Idle, Fields

LEMMA DoneEffect ==
  ASSUME Shaped, NEW id \in Calls, NEW outcome, Done(id, outcome)
  PROVE  /\ Only(id) /\ call'[id].pc = "done"
         /\ call[id].cred = <<>> => GivesUp(id)
         /\ call[id].cred # <<>> =>
              Stays(id) /\ call'[id].outcome = outcome /\ call'[id].ended = now
<1>1. DOMAIN call = Calls /\ DOMAIN call[id] = Fields
  BY DEF Shaped, Fits
<1>2. /\ call'[id] = EndsWith(call[id], outcome) /\ DOMAIN call' = Calls
      /\ \A other \in Calls \ {id} : call'[other] = call[other]
  BY <1>1 DEF Done
<1> QED BY <1>1, <1>2, EndsEffect DEF Only, Stays, GivesUp

LEMMA RetryEffect ==
  ASSUME Shaped, NEW id \in Calls, NEW credential, Retry(id, credential)
  PROVE  /\ Only(id) /\ call'[id].pc = "retried" /\ call'[id].cred = <<credential>>
         /\ call'[id].outcome = call[id].outcome /\ call'[id].route = call[id].route
         /\ call'[id].offers = call[id].offers
         /\ call'[id].ranking = call[id].ranking /\ call'[id].sent = call[id].sent
<1> DEFINE step == [call EXCEPT ![id].pc = "retried"]
<1>1. DOMAIN call = Calls /\ DOMAIN call[id] = Fields
  BY DEF Shaped, Fits
<1>2. /\ DOMAIN step = Calls /\ step[id] = [call[id] EXCEPT !.pc = "retried"]
      /\ \A other \in Calls \ {id} : step[other] = call[other]
  BY <1>1
<1>3. call' = [step EXCEPT ![id].cred = <<credential>>]
  BY DEF Retry
<1>4. /\ DOMAIN step[id] = Fields /\ step[id].pc = "retried" /\ step[id].outcome = call[id].outcome
      /\ step[id].route = call[id].route /\ step[id].offers = call[id].offers
      /\ step[id].ranking = call[id].ranking /\ step[id].sent = call[id].sent
  BY <1>1, <1>2 DEF Fields
<1> HIDE DEF step
<1>5. /\ DOMAIN call' = Calls /\ call'[id] = [step[id] EXCEPT !.cred = <<credential>>]
      /\ \A other \in Calls \ {id} : call'[other] = step[other]
  BY <1>2, <1>3
<1>6. /\ DOMAIN call'[id] = Fields /\ call'[id].pc = step[id].pc
      /\ call'[id].cred = <<credential>> /\ call'[id].outcome = step[id].outcome
      /\ call'[id].route = step[id].route /\ call'[id].offers = step[id].offers
      /\ call'[id].ranking = step[id].ranking /\ call'[id].sent = step[id].sent
  BY <1>4, <1>5 DEF Fields
<1> QED BY <1>2, <1>4, <1>5, <1>6 DEF Only

-----------------------------------------------------------------------------
(* The steps without a credential.                                         *)

\* A request that has no credential gets an offer it can trust, or gives up.
Asks(id) ==
  /\ Only(id) /\ Fits(call'[id]) /\ call[id].cred = <<>> /\ call'[id].cred = <<>>
  /\ ~Redeployed =>
       LET c == call'[id] IN
       /\ c.pc = "challenged" => \A i \in DOMAIN c.offers : Genuine(c.route, c.offers[i])
       /\ c.pc = "chosen" => Genuine(c.route, c.offers[1])
  /\ UNCHANGED <<opened, moved, used, served, key, raised, era, recording, since, troubled>>

LEMMA GivingUpAsks ==
  ASSUME Shaped, NEW id \in Calls, NEW outcome, Done(id, outcome), call[id].cred = <<>>,
         UNCHANGED <<opened, moved, used, served, key, raised, era, recording, since, troubled>>
  PROVE  Asks(id)
<1>1. Only(id) /\ GivesUp(id) /\ DOMAIN call'[id] = Fields
  BY DoneEffect DEF Only
<1>2. Fits(call'[id])
  BY <1>1 DEF Fits, GivesUp, Before, Carrying
<1> QED BY <1>1, <1>2 DEF Asks, GivesUp

LEMMA SendAsks ==
  ASSUME Shaped, NEW id \in Calls, Send(id)
  PROVE  Asks(id)
<1>1. call[id].cred = <<>> /\ DOMAIN call = Calls
  BY DEF Send, Shaped, Fits, Before
<1>2. UNCHANGED <<opened, moved, used, served, key, raised, era, recording, since, troubled>>
  BY DEF Send, channel, ledger, server
<1>3. CASE Done(id, "error")
  BY <1>1, <1>2, <1>3, GivingUpAsks
<1>4. CASE ~Done(id, "error")
  <2>0. PICK kind \in {"fetch", "middleware"}, r \in Routes, clones \in BOOLEAN,
             wish \in Wishes : \E sent \in {wish, NoPreference} :
          IF kind = "fetch" /\ ~clones
            THEN Done(id, "error")
            ELSE call' = [call EXCEPT ![id] =
                   [Idle EXCEPT !.pc = "asked", !.route = r, !.clones = clones,
                                !.ranking = wish, !.sent = sent]]
    BY Zenon DEF Send
  <2>1. PICK sent \in {wish, NoPreference} :
          call' = [call EXCEPT ![id] =
            [Idle EXCEPT !.pc = "asked", !.route = r, !.clones = clones,
                         !.ranking = wish, !.sent = sent]]
    BY <1>4, <2>0, Zenon
  <2> DEFINE c == [Idle EXCEPT !.pc = "asked", !.route = r, !.clones = clones,
                               !.ranking = wish, !.sent = sent]
  <2>2. /\ DOMAIN c = Fields /\ c.pc = "asked" /\ c.cred = <<>> /\ c.route = r
        /\ c.outcome = "none" /\ c.ranking = wish /\ c.sent = sent
    BY DEF Idle, Fields
  <2>3. /\ DOMAIN call' = Calls /\ call'[id] = c
        /\ \A other \in Calls \ {id} : call'[other] = call[other]
    BY <1>1, <2>1
  <2> HIDE DEF c
  <2>4. Fits(c)
    BY <2>2 DEF Fits, Before, Carrying
  <2> QED BY <1>1, <1>2, <2>2, <2>3, <2>4 DEF Asks, Only
<1> QED BY <1>3, <1>4

LEMMA SelectAsks ==
  ASSUME Shaped, OffersGenuine, NEW id \in Calls, Select(id)
  PROVE  Asks(id)
<1> DEFINE payable == Payable(call[id].offers, call[id].ranking, now)
           c == [Idle EXCEPT !.pc = "chosen", !.route = call[id].route, !.offers = <<payable[1]>>]
<1>1. /\ call[id].cred = <<>> /\ DOMAIN call = Calls /\ call[id].route \in Routes
      /\ call[id].pc = "challenged"
      /\ IsFiniteSet(DOMAIN call[id].offers) /\ DOMAIN call[id].offers \subseteq Nat
      /\ call[id].ranking \in Wishes \cup {NoPreference}
  BY DEF Select, Shaped, Fits, Before
<1>2. UNCHANGED <<opened, moved, used, served, key, raised, era, recording, since, troubled>>
  BY DEF Select, channel, ledger, server
<1>3. CASE Done(id, "error")
  BY <1>1, <1>2, <1>3, GivingUpAsks
<1>4. CASE payable # <<>> /\ call' = [call EXCEPT ![id] = c]
  <2>1. PICK i \in DOMAIN call[id].offers : payable[1] = call[id].offers[i]
    BY <1>1, <1>4, PayableFrom
  <2>2. /\ DOMAIN c = Fields /\ c.pc = "chosen" /\ c.cred = <<>> /\ c.route = call[id].route
        /\ c.outcome = "none" /\ c.ranking = NoPreference /\ c.sent = NoPreference
        /\ c.offers[1] = call[id].offers[i]
    BY <2>1 DEF Idle, Fields
  <2>3. /\ DOMAIN call' = Calls /\ call'[id] = c
        /\ \A other \in Calls \ {id} : call'[other] = call[other]
    BY <1>1, <1>4
  <2> HIDE DEF c
  <2>4. Fits(c)
    BY <1>1, <2>2 DEF Fits, Before, Carrying
  <2>5. ~Redeployed => Genuine(call[id].route, call[id].offers[i])
    BY <1>1 DEF OffersGenuine
  <2> QED BY <1>1, <1>2, <2>2, <2>3, <2>4, <2>5 DEF Asks, Only
<1> QED BY <1>3, <1>4 DEF Select

LEMMA ChallengeAsks ==
  ASSUME Shaped, NEW id \in Calls, Challenge(id)
  PROVE  Asks(id)
<1> DEFINE r == call[id].route
           offers == Offers(r, key, price[r], now, id)
           sent == IF GateOf[r] = "composed" THEN Compose(offers, call[id].sent) ELSE offers
           step == [call EXCEPT ![id].pc = "challenged"]
           next == [step EXCEPT ![id].offers = Offered(id)]
<1>1. /\ call[id].cred = <<>> /\ DOMAIN call = Calls /\ DOMAIN call[id] = Fields /\ r \in Routes
      /\ call[id].sent \in Wishes \cup {NoPreference} /\ call[id].outcome = "none"
      /\ call[id].ranking \in Wishes \cup {NoPreference}
  BY DEF Challenge, Shaped, Fits, Before
<1>2. UNCHANGED <<opened, moved, used, served, key, raised, era, recording, since, troubled>>
  BY DEF Challenge, channel, ledger, server
<1>3. CASE Done(id, "error")
  BY <1>1, <1>2, <1>3, GivingUpAsks
<1>4. CASE call' = [next EXCEPT ![id].sent = NoPreference]
  <2>1. /\ DOMAIN step = Calls /\ step[id] = [call[id] EXCEPT !.pc = "challenged"]
        /\ \A other \in Calls \ {id} : step[other] = call[other]
    BY <1>1
  <2>2. /\ DOMAIN step[id] = Fields /\ step[id].pc = "challenged" /\ step[id].cred = <<>>
        /\ step[id].route = r /\ step[id].outcome = "none" /\ step[id].ranking = call[id].ranking
    BY <1>1, <2>1 DEF Fields
  <2> HIDE DEF step
  <2>3. /\ DOMAIN next = Calls /\ next[id] = [step[id] EXCEPT !.offers = Offered(id)]
        /\ \A other \in Calls \ {id} : next[other] = call[other]
    BY <2>1
  <2>4. /\ DOMAIN next[id] = Fields /\ next[id].pc = "challenged" /\ next[id].cred = <<>>
        /\ next[id].route = r /\ next[id].outcome = "none" /\ next[id].ranking = call[id].ranking
        /\ next[id].offers = Offered(id)
    BY <2>2, <2>3 DEF Fields
  <2> HIDE DEF next
  <2>5. /\ DOMAIN call' = Calls /\ call'[id] = [next[id] EXCEPT !.sent = NoPreference]
        /\ \A other \in Calls \ {id} : call'[other] = call[other]
    BY <1>4, <2>3
  <2>6. /\ DOMAIN call'[id] = Fields /\ call'[id].pc = "challenged" /\ call'[id].cred = <<>>
        /\ call'[id].route = r /\ call'[id].outcome = "none"
        /\ call'[id].ranking = call[id].ranking
        /\ call'[id].offers = Offered(id) /\ call'[id].sent = NoPreference
    BY <2>4, <2>5 DEF Fields
  <2>7. Offered(id) = Transmitted(r, sent)
    BY DEF Offered
  <2>8. IsFiniteSet(DOMAIN Offered(id)) /\ DOMAIN Offered(id) \subseteq Nat
    <3>1. sent \in {Offers(r, key, price[r], now, id),
                    Compose(Offers(r, key, price[r], now, id), call[id].sent)}
      OBVIOUS
    <3> HIDE DEF sent, offers, r
    <3> QED BY <1>1, <2>7, <3>1, SentShape
  <2>9. Fits(call'[id])
    BY <1>1, <2>6, <2>8 DEF Fits, Before, Carrying
  <2>10. ~Redeployed => \A i \in DOMAIN Offered(id) : Genuine(r, Offered(id)[i])
    <3> SUFFICES ASSUME ~Redeployed PROVE \A i \in DOMAIN Offered(id) : Genuine(r, Offered(id)[i])
      OBVIOUS
    <3>1. key = 0 /\ raised = 0
      BY DEF Redeployed, Shaped
    <3>2. BasePrice[r] \in Nat
      BY <1>1, GateAssumption
    <3>3. price[r] = BasePrice[r]
      BY <1>1, <3>1, <3>2 DEF price
    <3>4. offers = Offers(r, 0, BasePrice[r], now, id)
      BY <3>1, <3>3
    <3> HIDE DEF offers
    <3>5. sent \in {offers, Compose(offers, call[id].sent)}
      OBVIOUS
    <3> HIDE DEF sent, r
    <3>6. \A i \in DOMAIN Transmitted(r, sent) : Genuine(r, Transmitted(r, sent)[i])
      BY <1>1, <3>4, <3>5, SentGenuine
    <3> QED BY <2>7, <3>6 DEF sent
  <2> QED BY <1>1, <1>2, <2>5, <2>6, <2>9, <2>10 DEF Asks, Only
<1> QED BY <1>3, <1>4 DEF Challenge

-----------------------------------------------------------------------------
(* The steps with a credential, each by what it changes.                   *)

Quiet == UNCHANGED <<moved, used, served, troubled>>
Fixed == UNCHANGED <<opened, key, raised, era, recording, since>>

Gets(id, x) ==
  /\ Only(id) /\ Fits(call'[id]) /\ call[id].pc = "chosen" /\ call[id].cred = <<>>
  /\ call'[id].pc = "retried" /\ call'[id].cred = <<x>>
  /\ call'[id].route = call[id].route /\ call'[id].offers = call[id].offers

Pays(id) ==
  LET c == call[id].offers[1]
  IN /\ Gets(id, Credential(c, PayBy(id, c))) /\ ~IsExpired(c, now)
     /\ opened' = (opened \/ c.intent = "session")
     /\ Quiet /\ UNCHANGED <<key, raised, era, recording, since>>

Copies(id) == (\E other \in Paying : Gets(id, Cred(other))) /\ Quiet /\ Fixed

Broadcasts(id) ==
  LET c == call[id].offers[1]
      own == Fresh("hash", id, c)
  IN /\ Gets(id, Credential(c, own)) /\ c.method = "tempo" /\ c.intent = "charge"
     /\ moved' = moved \cup {own}
     /\ UNCHANGED <<used, served, troubled>> /\ Fixed

Carries(id, pc, outcome) ==
  /\ Only(id) /\ Fits(call'[id]) /\ Stays(id) /\ call[id].cred # <<>>
  /\ call'[id].pc = pc /\ call'[id].outcome = outcome
  /\ pc = "done" => call'[id].ended = now
  /\ Fixed

Passes(id) ==
  /\ call[id].pc = "retried" /\ Carries(id, "admitted", "none") /\ Quiet
  /\ Admits(call[id].route, Cred(id).challenge, key, price[call[id].route], now)

TurnsAway(id) ==
  /\ call[id].pc = "retried" /\ Carries(id, "done", "refused") /\ Quiet
  /\ ~Admits(call[id].route, Cred(id).challenge, key, price[call[id].route], now)

Redeems(id) ==
  /\ call[id].pc = "admitted" /\ Carries(id, "settled", "none")
  /\ Charges(Cred(id)) => Entry(Cred(id)) \notin used
  /\ moved' = moved \cup {Cred(id).pay} /\ used' \in {used, used \cup {Entry(Cred(id))}}
  /\ Charges(Cred(id)) /\ Records(Cred(id)) => used' = used \cup {Entry(Cred(id))}
  /\ UNCHANGED <<served, troubled>>

Fails(id) ==
  /\ call[id].pc = "admitted" /\ Carries(id, "done", "refused")
  /\ troubled' = troubled \cup {id}
  /\ moved' \in {moved, moved \cup {Cred(id).pay}} /\ used' \in {used, used \cup {Entry(Cred(id))}}
  /\ UNCHANGED served

Spoils(id) ==
  /\ call[id].pc = "admitted" /\ Carries(id, "done", "refused") /\ Quiet
  /\ LET pay == Cred(id).pay
     IN \/ Charges(Cred(id)) /\ Entry(Cred(id)) \in used
        \/ pay.how = "voucher"

Returns(id) ==
  /\ call[id].pc = "admitted" /\ Carries(id, "done", "refused")
  /\ LET pay == Cred(id).pay
     IN /\ pay.how = "tx" /\ (pay \in moved \/ now > pay.at + ValidFor)
        /\ used' \in {used, used \cup {pay}}
  /\ UNCHANGED <<moved, served, troubled>>

Answers(id) ==
  /\ call[id].pc = "settled" /\ Carries(id, "done", "management") /\ Quiet
  /\ Cred(id).pay.how = "open"

Delivers(id) ==
  /\ call[id].pc = "settled" /\ \E outcome \in {"content", "lost"} : Carries(id, "done", outcome)
  /\ served' = served \cup {[call |-> id, route |-> call[id].route, pay |-> Cred(id).pay,
                           era |-> era]}
  /\ UNCHANGED <<moved, used, troubled>>

Breaks(id) ==
  /\ call[id].pc = "settled" /\ Carries(id, "done", "error")
  /\ troubled' = troubled \cup {id}
  /\ UNCHANGED <<moved, used, served>>

Loses(id) == call[id].pc \in Carrying /\ Carries(id, "done", "lost") /\ Quiet

Restarts ==
  /\ era = 0 /\ era' = 1 /\ recording' = recording
  /\ \/ UNCHANGED <<used, since>>
     \/ since' = 1 /\ used' = used \ {x.pay : x \in Created}

Redeploys ==
  /\ DOMAIN call' = Calls
  /\ \A id \in Calls :
       IF call[id].pc \in {"admitted", "settled"}
         THEN /\ Fits(call'[id]) /\ Stays(id)
              /\ call'[id].pc = "done" /\ call'[id].outcome = "lost"
         ELSE call'[id] = call[id]
  /\ Restarts /\ key' \in {0, 1} /\ raised' \in {0, 1}
  /\ UNCHANGED <<opened, moved, served, troubled>>

\* What a step leaves that touches no credential.
Untouched ==
  /\ DOMAIN call' = Calls
  /\ \A id \in Calls :
       \/ call'[id] = call[id]
       \/ call[id].cred = <<>> /\ call'[id].cred = <<>> /\ Fits(call'[id])
  /\ UNCHANGED <<opened, moved, used, served, key, raised, era, recording, since, troubled>>

LEMMA DoneCarries ==
  ASSUME Shaped, NEW id \in Calls, NEW outcome, Done(id, outcome), call[id].cred # <<>>,
         Fixed
  PROVE  Carries(id, "done", outcome)
<1>1. /\ Only(id) /\ Stays(id) /\ DOMAIN call'[id] = Fields /\ call'[id].pc = "done"
      /\ call'[id].outcome = outcome /\ call'[id].ended = now
  BY DoneEffect DEF Only
<1>2. Fits(call'[id])
  BY <1>1 DEF Shaped, Fits, Stays, Before, Carrying
<1> QED BY <1>1, <1>2 DEF Carries

LEMMA GoesCarries ==
  ASSUME Shaped, NEW id \in Calls, NEW pc \in Carrying, Goes(id, pc), call[id].pc \in Carrying,
         Fixed
  PROVE  Carries(id, pc, "none")
<1>1. /\ Only(id) /\ Stays(id) /\ DOMAIN call'[id] = Fields /\ call'[id].pc = pc
      /\ call'[id].outcome = call[id].outcome
  BY GoesEffect DEF Only
<1>2. Fits(call'[id]) /\ call[id].cred # <<>> /\ call[id].outcome = "none"
  BY <1>1 DEF Shaped, Fits, Stays, Before, Carrying
<1> QED BY <1>1, <1>2 DEF Carries, Carrying

LEMMA RetryGets ==
  ASSUME Shaped, NEW id \in Calls, NEW x, Retry(id, x), call[id].pc = "chosen"
  PROVE  Gets(id, x)
<1>1. /\ Only(id) /\ call'[id].pc = "retried" /\ call'[id].cred = <<x>>
      /\ call'[id].outcome = call[id].outcome /\ call'[id].route = call[id].route
      /\ call'[id].offers = call[id].offers /\ DOMAIN call'[id] = Fields
      /\ call'[id].ranking = call[id].ranking /\ call'[id].sent = call[id].sent
  BY RetryEffect DEF Only
<1>2. Fits(call'[id]) /\ call[id].cred = <<>>
  BY <1>1 DEF Shaped, Fits, Before, Carrying
<1> QED BY <1>1, <1>2 DEF Gets

LEMMA PayEffect ==
  ASSUME Shaped, NEW id \in Calls, Pay(id)
  PROVE  Asks(id) \/ Pays(id)
<1> DEFINE c == call[id].offers[1]
<1>1. call[id].pc = "chosen" /\ call[id].cred = <<>>
  BY DEF Pay, Shaped, Fits, Before
<1>2. Quiet /\ UNCHANGED <<key, raised, era, recording, since>>
  BY DEF Pay, ledger, server, Quiet
<1>3. CASE /\ ~IsExpired(c, now) /\ Retry(id, Credential(c, PayBy(id, c)))
           /\ opened' = (opened \/ c.intent = "session")
  <2>1. Gets(id, Credential(c, PayBy(id, c)))
    BY <1>1, <1>3, RetryGets
  <2> QED BY <1>2, <1>3, <2>1 DEF Pays
<1>4. CASE Done(id, "error") /\ UNCHANGED opened
  BY <1>1, <1>2, <1>4, GivingUpAsks DEF Quiet
<1> QED BY <1>3, <1>4 DEF Pay

LEMMA OverrideEffect ==
  ASSUME Shaped, NEW id \in Calls, Override(id)
  PROVE  Copies(id) \/ Broadcasts(id)
<1> DEFINE c == call[id].offers[1]
           own == Fresh("hash", id, c)
<1>1. call[id].pc = "chosen" /\ Fixed /\ UNCHANGED <<used, served, troubled>>
  BY DEF Override, channel, server, Fixed
<1>2. CASE (\E credential \in Created : Retry(id, credential)) /\ UNCHANGED moved
  <2>1. PICK other \in Paying : Retry(id, Cred(other))
    BY <1>2 DEF Created
  <2> QED BY <1>1, <1>2, <2>1, RetryGets DEF Copies, Quiet
<1>3. CASE /\ c.method = "tempo" /\ c.intent = "charge" /\ Retry(id, Credential(c, own))
           /\ moved' = moved \cup {own}
  BY <1>1, <1>3, RetryGets DEF Broadcasts
<1> QED BY <1>2, <1>3 DEF Override

LEMMA VerifyEffect ==
  ASSUME Shaped, NEW id \in Calls, Verify(id)
  PROVE  Passes(id) \/ TurnsAway(id)
<1> DEFINE r == call[id].route
           ok == Admits(r, Cred(id).challenge, key, price[r], now)
<1>1. call[id].pc = "retried" /\ call[id].cred # <<>> /\ Fixed /\ Quiet
  BY DEF Verify, channel, ledger, server, Fixed, Quiet, Shaped, Fits, Carrying
<1>2. CASE ok
  <2>1. Goes(id, "admitted")
    BY <1>2 DEF Verify
  <2>2. Carries(id, "admitted", "none")
    BY <1>1, <2>1, GoesCarries DEF Carrying
  <2> QED BY <1>1, <1>2, <2>2 DEF Passes
<1>3. CASE ~ok
  <2>1. Done(id, "refused")
    BY <1>3 DEF Verify, Refuse
  <2>2. Carries(id, "done", "refused")
    BY <1>1, <2>1, DoneCarries
  <2> QED BY <1>1, <1>3, <2>2 DEF TurnsAway
<1> QED BY <1>2, <1>3

LEMMA RedeemEffect ==
  ASSUME Shaped, NEW id \in Calls, call[id].pc = "admitted", NEW recorded,
         Redeem(id, recorded), recorded \in {used, used \cup {Entry(Cred(id))}},
         Charges(Cred(id)) =>
           /\ Unused(Entry(Cred(id)))
           /\ Records(Cred(id)) => recorded = used \cup {Entry(Cred(id))},
         Fixed, UNCHANGED served
  PROVE  Redeems(id)
<1>1. Carries(id, "settled", "none")
  BY GoesCarries DEF Redeem, Carrying
<1> QED BY <1>1 DEF Redeem, Redeems, Unused

LEMMA FailEffect ==
  ASSUME Shaped, NEW id \in Calls, call[id].pc = "admitted", NEW recorded,
         SettlingFails(id, recorded), recorded \in {used, used \cup {Entry(Cred(id))}},
         Fixed, UNCHANGED served
  PROVE  Fails(id)
<1>1. call[id].cred # <<>>
  BY DEF Shaped, Fits, Carrying
<1>2. Carries(id, "done", "refused")
  BY <1>1, DoneCarries DEF SettlingFails, Refuse
<1>3. /\ moved' \in {moved, moved \cup {Cred(id).pay}}
      /\ used' \in {used, used \cup {Entry(Cred(id))}}
      /\ troubled' = troubled \cup {id}
  BY DEF SettlingFails
<1> QED BY <1>2, <1>3 DEF Fails

LEMMA SpoilEffect ==
  ASSUME Shaped, NEW id \in Calls, call[id].pc = "admitted", Spoiled(id), Fixed,
         UNCHANGED served,
         \/ Charges(Cred(id)) /\ Entry(Cred(id)) \in used
         \/ Cred(id).pay.how = "voucher"
  PROVE  Spoils(id)
<1>1. call[id].cred # <<>>
  BY DEF Shaped, Fits, Carrying
<1>2. Carries(id, "done", "refused") /\ Quiet
  BY <1>1, DoneCarries DEF Spoiled, Refuse, Quiet
<1> QED BY <1>2 DEF Spoils

LEMMA ReturnEffect ==
  ASSUME Shaped, NEW id \in Calls, call[id].pc = "admitted", Fixed, UNCHANGED served,
         Returned(id, Recorded(Cred(id).pay)), Cred(id).pay.how = "tx",
         Cred(id).pay \in moved \/ now > Cred(id).pay.at + ValidFor
  PROVE  Returns(id)
<1>1. call[id].cred # <<>>
  BY DEF Shaped, Fits, Carrying
<1>2. Carries(id, "done", "refused")
  BY <1>1, DoneCarries DEF Returned, Refuse
<1> QED BY <1>2 DEF Returned, Recorded, Returns

LEMMA SettleEffect ==
  ASSUME Shaped, NEW id \in Calls, Settle(id)
  PROVE  Redeems(id) \/ Fails(id) \/ Spoils(id) \/ Returns(id)
<1> DEFINE x == Cred(id)
           entry == Entry(x)
<1>1. call[id].pc = "admitted" /\ Fixed /\ UNCHANGED served
  BY DEF Settle, server, Fixed
<1>2. CASE x.challenge.intent = "session"
  <2>1. ~Charges(x)
    BY <1>2 DEF Charges
  <2>2. \/ x.pay.how = "voucher" /\ Spoiled(id)
        \/ Redeem(id, used) \/ SettlingFails(id, used)
    BY <1>2 DEF Settle, SettleSession
  <2> QED BY <1>1, <2>1, <2>2, RedeemEffect, FailEffect, SpoilEffect
<1>3. CASE x.challenge.intent # "session" /\ x.challenge.method = "stripe"
  <2>1. entry = x /\ Charges(x)
    BY <1>3 DEF Entry, Charges
  <2>2. \/ /\ Unused(entry)
           /\ Redeem(id, used \cup {entry}) \/ SettlingFails(id, used \cup {entry})
        \/ entry \in used /\ Spoiled(id)
    BY <1>3, <2>1 DEF Settle, SettleStripe, Unused
  <2> QED BY <1>1, <2>1, <2>2, RedeemEffect, FailEffect, SpoilEffect
<1>4. CASE x.challenge.intent # "session" /\ x.challenge.method # "stripe"
  <2>1. entry = x.pay /\ Charges(x)
    BY <1>4 DEF Entry, Charges
  <2> DEFINE recorded == Recorded(x.pay)
  <2>2. \/ Unused(entry) /\ (Redeem(id, recorded) \/ SettlingFails(id, recorded))
        \/ entry \in used /\ Spoiled(id)
        \/ /\ x.pay.how = "tx" /\ (x.pay \in moved \/ now > x.pay.at + ValidFor)
           /\ Returned(id, recorded)
    BY <1>4, <2>1 DEF Settle, SettleTempo, Unused
  <2>3. /\ recorded \in {used, used \cup {entry}}
        /\ Records(x) => recorded = used \cup {entry}
    BY <1>4, <2>1 DEF Recorded, Records
  <2>4. CASE Unused(entry) /\ Redeem(id, recorded)
    <3> HIDE DEF recorded
    <3> QED BY <1>1, <2>3, <2>4, RedeemEffect
  <2>5. CASE SettlingFails(id, recorded)
    <3> HIDE DEF recorded
    <3> QED BY <1>1, <2>3, <2>5, FailEffect
  <2> QED BY <1>1, <2>1, <2>2, <2>4, <2>5, SpoilEffect, ReturnEffect
<1> QED BY <1>2, <1>3, <1>4

LEMMA ServeEffect ==
  ASSUME Shaped, NEW id \in Calls, Serve(id)
  PROVE  Answers(id) \/ Delivers(id) \/ Breaks(id)
<1>1. /\ call[id].pc = "settled" /\ call[id].cred # <<>> /\ Fixed
      /\ UNCHANGED <<moved, used>>
  BY DEF Serve, Shaped, Fits, Carrying, channel, server, Fixed
<1>2. CASE Answered(Cred(id).pay) /\ Done(id, "management") /\ UNCHANGED <<served, troubled>>
  <2>1. Carries(id, "done", "management")
    BY <1>1, <1>2, DoneCarries
  <2> QED BY <1>1, <1>2, <2>1 DEF Answers, Answered, Quiet
<1>3. CASE /\ served' = served \cup {[call |-> id, route |-> call[id].route, pay |-> Cred(id).pay,
                           era |-> era]}
           /\ (Done(id, "content") \/ Done(id, "lost")) /\ UNCHANGED troubled
  <2>1. Carries(id, "done", "content") \/ Carries(id, "done", "lost")
    BY <1>1, <1>3, DoneCarries
  <2> QED BY <1>1, <1>3, <2>1 DEF Delivers
<1>4. CASE Done(id, "error") /\ troubled' = troubled \cup {id} /\ UNCHANGED served
  <2>1. Carries(id, "done", "error")
    BY <1>1, <1>4, DoneCarries
  <2> QED BY <1>1, <1>4, <2>1 DEF Breaks
<1> QED BY <1>2, <1>3, <1>4 DEF Serve

LEMMA LoseEffect ==
  ASSUME Shaped, NEW id \in Calls, Lose(id)
  PROVE  Asks(id) \/ Loses(id)
<1>1. /\ Done(id, "lost") /\ Fixed /\ Quiet
      /\ call[id].pc = "asked" \/ call[id].pc \in Carrying
  BY DEF Lose, channel, ledger, server, Fixed, Quiet, Carrying
<1>2. CASE call[id].pc = "asked"
  <2>1. call[id].cred = <<>>
    BY <1>2 DEF Shaped, Fits, Before
  <2> QED BY <1>1, <2>1, GivingUpAsks DEF Fixed, Quiet
<1>3. CASE call[id].pc \in Carrying
  <2>1. call[id].cred # <<>>
    BY <1>3 DEF Shaped, Fits
  <2> QED BY <1>1, <1>3, <2>1, DoneCarries DEF Loses
<1> QED BY <1>1, <1>2, <1>3

LEMMA RedeployEffect ==
  ASSUME Shaped, Redeploy
  PROVE  Redeploys
<1>1. /\ call' = [id \in Calls |->
           IF call[id].pc \in {"admitted", "settled"} THEN EndsWith(call[id], "lost") ELSE call[id]]
      /\ \E d \in Deployments : key' = d[1] /\ raised' = d[2]
      /\ Restarts /\ UNCHANGED <<opened, moved, served, troubled>>
  BY DEF Redeploy, Forget, Restarts
<1>2. key' \in {0, 1} /\ raised' \in {0, 1} /\ DOMAIN call' = Calls
  BY <1>1, PaidAssumption
<1>3. ASSUME NEW id \in Calls, call[id].pc \in {"admitted", "settled"}
      PROVE  /\ Fits(call'[id]) /\ Stays(id)
             /\ call'[id].pc = "done" /\ call'[id].outcome = "lost"
  <2>1. call'[id] = EndsWith(call[id], "lost")
    BY <1>1, <1>3
  <2>2. Fits(call[id]) /\ call[id].cred # <<>> /\ DOMAIN call[id] = Fields
    BY <1>3 DEF Shaped, Fits, Carrying
  <2>3. /\ DOMAIN call'[id] = Fields /\ Stays(id)
        /\ call'[id].pc = "done" /\ call'[id].outcome = "lost"
    BY <2>1, <2>2, EndsEffect DEF Stays
  <2> QED BY <2>2, <2>3 DEF Fits, Stays, Before, Carrying
<1>4. \A id \in Calls : call[id].pc \notin {"admitted", "settled"} => call'[id] = call[id]
  BY <1>1
<1> QED BY <1>1, <1>2, <1>3, <1>4 DEF Redeploys

\* Every step is one of these.
Kinds(id) ==
  \/ Pays(id) \/ Copies(id) \/ Broadcasts(id)
  \/ Passes(id) \/ TurnsAway(id) \/ Redeems(id) \/ Fails(id) \/ Spoils(id) \/ Returns(id)
  \/ Answers(id) \/ Delivers(id) \/ Breaks(id) \/ Loses(id)

LEMMA StepKinds ==
  ASSUME Shaped, OffersGenuine, [Next]_vars
  PROVE  \/ Untouched /\ (\A id \in Calls : call'[id] = call[id])
         \/ \E id \in Calls : Asks(id)
         \/ \E id \in Calls : Kinds(id)
         \/ Redeploys
<1>1. CASE Tick \/ Rest \/ UNCHANGED vars
  BY <1>1 DEF Tick, Rest, vars, channel, ledger, server, Untouched, Shaped
<1>2. CASE Redeploy
  BY <1>2, RedeployEffect
<1>3. CASE \E id \in Calls : Proceed(id) \/ Lose(id)
  <2>1. PICK id \in Calls : Proceed(id) \/ Lose(id)
    BY <1>3
  <2>2. Asks(id) \/ Kinds(id)
    BY <2>1, SendAsks, SelectAsks, ChallengeAsks, PayEffect, OverrideEffect, VerifyEffect,
       SettleEffect, ServeEffect, LoseEffect DEF Proceed, Kinds
  <2> QED BY <2>2
<1> QED BY <1>1, <1>2, <1>3 DEF Next

-----------------------------------------------------------------------------
(* Nothing that was paid, served or blamed is forgotten; what was redeemed *)
(* may be, when the server starts again.                                   *)

Recording == used \subseteq used' /\ UNCHANGED <<era, recording, since>>

Growing ==
  /\ DOMAIN call' = Calls
  /\ \A id \in Paying :
       /\ call'[id].cred = call[id].cred /\ call'[id].route = call[id].route
       /\ call'[id].offers = call[id].offers
       /\ call[id].pc = "done" => call'[id] = call[id]
  /\ moved \subseteq moved' /\ served \subseteq served' /\ troubled \subseteq troubled'
  /\ Recording \/ Restarts

LEMMA KindsMove ==
  ASSUME Shaped, NEW id \in Calls, Kinds(id)
  PROVE  /\ Only(id) /\ Fits(call'[id]) /\ UNCHANGED <<key, raised, era, recording, since>>
         /\ call[id].cred # <<>> => Stays(id) /\ call[id].pc \in Carrying
         /\ moved \subseteq moved' /\ used \subseteq used' /\ served \subseteq served'
         /\ troubled \subseteq troubled'
<1>1. CASE Pays(id) \/ Copies(id) \/ Broadcasts(id)
  BY <1>1 DEF Pays, Copies, Broadcasts, Gets, Quiet, Fixed
<1>2. CASE Passes(id) \/ TurnsAway(id) \/ Loses(id) \/ Spoils(id) \/ Answers(id)
  BY <1>2 DEF Passes, TurnsAway, Loses, Spoils, Answers, Carries, Quiet, Fixed, Carrying
<1>3. CASE Redeems(id) \/ Fails(id) \/ Returns(id)
  BY <1>3 DEF Redeems, Fails, Returns, Carries, Fixed, Carrying
<1>4. CASE Delivers(id) \/ Breaks(id)
  BY <1>4 DEF Delivers, Breaks, Carries, Fixed, Carrying
<1> QED BY <1>1, <1>2, <1>3, <1>4 DEF Kinds

LEMMA AsksUntouched ==
  ASSUME Shaped, NEW id \in Calls, Asks(id)
  PROVE  Untouched
BY DEF Asks, Only, Untouched

LEMMA StepGrows ==
  ASSUME Shaped, OffersGenuine, [Next]_vars
  PROVE  Growing /\ Shaped'
<1>1. CASE Untouched
  <2>1. Growing
    BY <1>1 DEF Untouched, Growing, Recording, Paying
  <2>2. Shaped'
    BY <1>1 DEF Untouched, Shaped
  <2> QED BY <2>1, <2>2
<1>2. CASE \E id \in Calls : Kinds(id)
  <2>1. PICK id \in Calls : Kinds(id)
    BY <1>2
  <2>2. /\ Only(id) /\ Fits(call'[id]) /\ UNCHANGED <<key, raised, era, recording, since>>
        /\ call[id].cred # <<>> => Stays(id) /\ call[id].pc \in Carrying
        /\ moved \subseteq moved' /\ used \subseteq used' /\ served \subseteq served'
        /\ troubled \subseteq troubled'
    BY <2>1, KindsMove
  <2>3. Growing
    BY <2>2 DEF Only, Stays, Growing, Recording, Paying, Carrying
  <2>4. Shaped'
    BY <2>2 DEF Only, Shaped
  <2> QED BY <2>3, <2>4
<1>3. CASE Redeploys
  <2>1. Growing
    BY <1>3 DEF Redeploys, Growing, Stays, Paying
  <2>2. Shaped'
    BY <1>3 DEF Redeploys, Restarts, Shaped
  <2> QED BY <2>1, <2>2
<1> QED BY <1>1, <1>2, <1>3, StepKinds, AsksUntouched

LEMMA StaysRedeployed ==
  ASSUME Growing, Redeployed
  PROVE  Redeployed'
BY DEF Growing, Recording, Restarts, Redeployed

\* What is said of the credentials there are stays true of them.
LEMMA CredentialsStay ==
  ASSUME Growing
  PROVE  /\ Paying \subseteq Paying' /\ Created \subseteq Created'
         /\ \A id \in Paying :
              /\ Cred(id)' = Cred(id)
              /\ HandedOn(id)' <=> HandedOn(id)
              /\ Garbled(id)' <=> Garbled(id)
              /\ call[id].pc = "done" => (TooLate(id)' <=> TooLate(id))
         /\ \A pay : Carriers(pay) \subseteq Carriers(pay)'
<1>1. Paying \subseteq Paying' /\ \A id \in Paying : Cred(id)' = Cred(id)
  BY DEF Growing, Paying, Cred
<1>2. Created \subseteq Created'
  BY <1>1 DEF Created
<1>3. ASSUME NEW id \in Paying
      PROVE  /\ HandedOn(id)' <=> HandedOn(id)
             /\ Garbled(id)' <=> Garbled(id)
  BY <1>1 DEF Growing, HandedOn, Garbled
<1>4. ASSUME NEW id \in Paying, call[id].pc = "done"
      PROVE  TooLate(id)' <=> TooLate(id)
  <2>1. call'[id] = call[id] /\ Cred(id)' = Cred(id)
    BY <1>1, <1>4 DEF Growing
  <2> QED BY <2>1 DEF TooLate, IsExpired
<1>5. \A pay : Carriers(pay) \subseteq Carriers(pay)'
  BY <1>1 DEF Carriers
<1> QED BY <1>1, <1>2, <1>3, <1>4, <1>5

LEMMA MadeStays ==
  ASSUME Growing, NEW x, Made(x)
  PROVE  Made(x)'
<1>1. x.pay.how # "tx" => /\ x.pay.mark \in Paying' /\ Cred(x.pay.mark)' = x
                          /\ HandedOn(x.pay.mark)' <=> HandedOn(x.pay.mark)
  BY CredentialsStay DEF Made
<1> QED BY <1>1 DEF Made, IsExpired

LEMMA OpenStays ==
  ASSUME Growing, OpenMade
  PROVE  OpenMade'
BY CredentialsStay DEF OpenMade

LEMMA SameCredentials ==
  ASSUME Shaped, Growing,
         Untouched \/ Redeploys \/ \E id \in Calls : \E pc, outcome : Carries(id, pc, outcome)
  PROVE  Paying' = Paying /\ UNCHANGED opened
<1>1. CASE Untouched
  BY <1>1 DEF Untouched, Paying
<1>2. CASE Redeploys
  BY <1>2 DEF Redeploys, Paying, Stays
<1>3. CASE \E id \in Calls : \E pc, outcome : Carries(id, pc, outcome)
  BY <1>3 DEF Carries, Only, Stays, Fixed, Paying
<1> QED BY <1>1, <1>2, <1>3

\* A step either gives a request its credential or leaves all as they are.
LEMMA KindsOfCredential ==
  ASSUME NEW id \in Calls, Kinds(id)
  PROVE  \/ Pays(id) \/ Copies(id) \/ Broadcasts(id)
         \/ \E pc, outcome : Carries(id, pc, outcome)
BY DEF Kinds, Passes, TurnsAway, Redeems, Fails, Spoils, Returns, Answers, Delivers, Breaks,
       Loses

LEMMA GotCredential ==
  ASSUME Growing, NEW id \in Calls, NEW x, Gets(id, x)
  PROVE  Paying' = Paying \cup {id} /\ Cred(id)' = x /\ id \notin Paying
<1>1. call'[id].cred = <<x>> /\ call[id].cred = <<>>
  BY DEF Gets
<1>2. <<x>> # <<>> /\ <<x>>[1] = x
  OBVIOUS
<1>3. call'[id].cred # <<>> /\ Cred(id)' = x
  BY <1>1, <1>2 DEF Cred
<1>4. \A other \in Calls \ {id} : call'[other] = call[other]
  BY DEF Gets, Only
<1> QED BY <1>1, <1>3, <1>4 DEF Paying

LEMMA PayMade ==
  ASSUME Shaped, Growing, NEW id \in Calls, Pays(id), NEW x,
         x = Credential(call[id].offers[1], PayBy(id, call[id].offers[1]))
  PROVE  /\ Made(x)' /\ x.challenge = call[id].offers[1]
         /\ x.pay.how = "voucher" => opened
         /\ x.challenge.intent = "session" /\ ~opened => x.pay.how = "open"
<1> DEFINE c == call[id].offers[1]
<1>1. id \in Paying' /\ Cred(id)' = x /\ ~IsExpired(c, now)
  BY GotCredential DEF Pays
<1>2. x.challenge = c /\ x.pay = PayBy(id, c) /\ DOMAIN x = {"challenge", "pay"}
  BY DEF Credential
<1> HIDE DEF c
<1>3. CASE c.intent = "session"
  <2>1. /\ DOMAIN x.pay = {"how", "amount", "mark", "at"} /\ x.pay.amount = c.amount
        /\ x.pay.mark = id /\ x.pay.at = now
        /\ x.pay.how = IF opened THEN "voucher" ELSE "open"
    <3>1. x.pay = Fresh(IF opened THEN "voucher" ELSE "open", id, c)
      BY <1>2, <1>3 DEF PayBy
    <3> QED BY <3>1 DEF Fresh
  <2>2. Made(x)'
    BY <1>1, <1>2, <1>3, <2>1 DEF Made, IsExpired
  <2> QED BY <1>2, <2>1, <2>2 DEF c
<1>4. CASE c.intent # "session" /\ c.method = "stripe"
  <2>1. /\ DOMAIN x.pay = {"how", "amount", "mark", "at"} /\ x.pay.amount = c.amount
        /\ x.pay.mark = id /\ x.pay.at = now /\ x.pay.how = "spt"
    <3>1. x.pay = Fresh("spt", id, c)
      BY <1>2, <1>4 DEF PayBy, Token
    <3> QED BY <3>1 DEF Fresh
  <2>2. Made(x)'
    BY <1>1, <1>2, <1>4, <2>1 DEF Made, IsExpired
  <2> QED BY <1>2, <1>4, <2>1, <2>2 DEF c
<1>5. CASE c.intent # "session" /\ c.method # "stripe"
  <2>1. /\ DOMAIN x.pay = {"how", "amount", "mark", "at"} /\ x.pay.amount = c.amount
        /\ x.pay.at = now /\ x.pay.how = "tx"
    <3>1. x.pay = Transfer(c)
      BY <1>2, <1>5 DEF PayBy
    <3> QED BY <3>1 DEF Transfer
  <2>2. Made(x)'
    BY <1>1, <1>2, <1>5, <2>1 DEF Made, IsExpired
  <2> QED BY <1>2, <1>5, <2>1, <2>2 DEF c
<1> QED BY <1>3, <1>4, <1>5

LEMMA BroadcastMade ==
  ASSUME Shaped, Growing, NEW id \in Calls, Broadcasts(id), NEW x,
         x = Credential(call[id].offers[1], Fresh("hash", id, call[id].offers[1]))
  PROVE  /\ Made(x)' /\ x.pay.how = "hash" /\ x.pay.mark = id
         /\ x.challenge = call[id].offers[1] /\ ~HandedOn(id)'
<1> DEFINE c == call[id].offers[1]
<1>1. id \in Paying' /\ Cred(id)' = x /\ c.method = "tempo" /\ c.intent = "charge"
  BY GotCredential DEF Broadcasts
<1>2. /\ x.challenge = c /\ DOMAIN x = {"challenge", "pay"}
      /\ DOMAIN x.pay = {"how", "amount", "mark", "at"} /\ x.pay.amount = c.amount
      /\ x.pay.at = now /\ x.pay.how = "hash" /\ x.pay.mark = id
  BY DEF Credential, Fresh
<1>3. call'[id].offers[1] = c
  BY DEF Broadcasts, Gets
<1> HIDE DEF c
<1>4. ~HandedOn(id)'
  BY <1>1, <1>2, <1>3 DEF HandedOn
<1>5. Made(x)'
  BY <1>1, <1>2, <1>4 DEF Made, IsExpired
<1> QED BY <1>2, <1>4, <1>5 DEF c

\* The new credential aside, the credentials stay as they were.
LEMMA CredsWithNew ==
  ASSUME Growing, CredsMade, NEW id \in Calls, NEW x, Gets(id, x), Made(x)',
         opened' => opened \/ x.pay.how = "open",
         x.pay.how = "voucher" => OpenMade
  PROVE  CredsMade'
<1>1. Paying' = Paying \cup {id} /\ Cred(id)' = x
  BY GotCredential
<1>2. \A other \in Paying' : Made(Cred(other))'
  <2> SUFFICES ASSUME NEW other, other \in Paying', NEW y, y = Cred(other)' PROVE Made(y)'
    BY DEF Made, IsExpired
  <2>1. CASE other \in Paying
    <3>1. y = Cred(other)
      BY <2>1, CredentialsStay
    <3>2. Made(y)
      BY <2>1, <3>1 DEF CredsMade
    <3> QED BY <3>2, MadeStays
  <2>2. CASE other = id
    BY <1>1, <2>2
  <2> QED BY <1>1, <2>1, <2>2
<1>3. x.pay.how = "open" => OpenMade'
  BY <1>1 DEF OpenMade
<1>4. \A other \in Paying' : Cred(other)'.pay.how = "voucher" => OpenMade'
  BY <1>1, CredentialsStay, OpenStays DEF CredsMade
<1>5. opened' => OpenMade'
  BY <1>3, OpenStays DEF CredsMade
<1> QED BY <1>2, <1>4, <1>5 DEF CredsMade

LEMMA CredsKept ==
  ASSUME Shaped, OffersGenuine, CredsMade, [Next]_vars
  PROVE  CredsMade'
<1>1. Growing
  BY StepGrows
<1>2. CASE Paying' = Paying /\ UNCHANGED opened
  <2>1. \A id \in Paying' : Made(Cred(id))'
    <3> SUFFICES ASSUME NEW id \in Paying, NEW y, y = Cred(id)' PROVE Made(y)'
      BY <1>2 DEF Made, IsExpired
    <3>1. y = Cred(id)
      BY <1>1, CredentialsStay
    <3>2. Made(y)
      BY <3>1 DEF CredsMade
    <3> QED BY <1>1, <3>2, MadeStays
  <2>2. \A id \in Paying' : Cred(id)'.pay.how = "voucher" => OpenMade'
    BY <1>1, <1>2, CredentialsStay, OpenStays DEF CredsMade
  <2>3. opened' => OpenMade'
    BY <1>1, <1>2, OpenStays DEF CredsMade
  <2> QED BY <2>1, <2>2, <2>3 DEF CredsMade
<1>3. CASE \E id \in Calls : Pays(id)
  <2>1. PICK id \in Calls : Pays(id)
    BY <1>3
  <2>2. PICK x : x = Credential(call[id].offers[1], PayBy(id, call[id].offers[1]))
    OBVIOUS
  <2>3. /\ Made(x)' /\ x.challenge = call[id].offers[1]
        /\ x.pay.how = "voucher" => opened
        /\ x.challenge.intent = "session" /\ ~opened => x.pay.how = "open"
    BY <1>1, <2>1, <2>2, PayMade
  <2>4. Gets(id, x) /\ opened' = (opened \/ x.challenge.intent = "session")
    BY <2>1, <2>2, <2>3 DEF Pays
  <2>5. x.pay.how = "voucher" => OpenMade
    BY <2>3 DEF CredsMade
  <2> QED BY <1>1, <2>3, <2>4, <2>5, CredsWithNew
<1>4. CASE \E id \in Calls : Copies(id)
  <2>1. PICK id \in Calls : Copies(id)
    BY <1>4
  <2>2. PICK other \in Paying : Gets(id, Cred(other))
    BY <2>1 DEF Copies
  <2>3. PICK x : x = Cred(other)
    OBVIOUS
  <2>4. Made(x) /\ (x.pay.how = "voucher" => OpenMade)
    BY <2>3 DEF CredsMade
  <2>5. Made(x)' /\ Gets(id, x) /\ UNCHANGED opened
    BY <1>1, <2>1, <2>2, <2>3, <2>4, MadeStays DEF Copies, Fixed
  <2> QED BY <1>1, <2>4, <2>5, CredsWithNew
<1>5. CASE \E id \in Calls : Broadcasts(id)
  <2>1. PICK id \in Calls : Broadcasts(id)
    BY <1>5
  <2>2. PICK x : x = Credential(call[id].offers[1], Fresh("hash", id, call[id].offers[1]))
    OBVIOUS
  <2>3. Made(x)' /\ x.pay.how = "hash"
    BY <1>1, <2>1, <2>2, BroadcastMade
  <2>4. Gets(id, x) /\ UNCHANGED opened
    BY <2>1, <2>2 DEF Broadcasts, Fixed
  <2> QED BY <1>1, <2>3, <2>4, CredsWithNew
<1>6. \/ Untouched \/ Redeploys
      \/ \E id \in Calls : Pays(id) \/ Copies(id) \/ Broadcasts(id)
      \/ \E id \in Calls : \E pc, outcome : Carries(id, pc, outcome)
  BY StepKinds, AsksUntouched, KindsOfCredential
<1> QED BY <1>1, <1>2, <1>3, <1>4, <1>5, <1>6, SameCredentials

-----------------------------------------------------------------------------
(* What the gate lets through, and what is settled.                        *)

LEMMA AdmittedKept ==
  ASSUME Shaped, OffersGenuine, Admitted, [Next]_vars
  PROVE  Admitted'
<1> SUFFICES ASSUME NEW id \in Calls, call'[id].pc \in {"admitted", "settled"}
             PROVE  /\ call'[id].route \in Stating =>
                         Cred(id)'.challenge.amount = price'[call'[id].route]
                    /\ call'[id].route \notin Metered => Cred(id)'.challenge.intent # "session"
  BY DEF Admitted
<1>1. Growing
  BY StepGrows
<1>2. CASE /\ call[id].pc \in {"admitted", "settled"} /\ UNCHANGED raised
           /\ call'[id].route = call[id].route /\ call'[id].cred = call[id].cred
  <2>1. price' = price /\ Cred(id)' = Cred(id)
    BY <1>2 DEF price, Cred
  <2> QED BY <1>2, <2>1 DEF Admitted
<1>3. CASE Untouched
  <2>1. call'[id].cred # <<>> => call'[id] = call[id]
    BY <1>3 DEF Untouched
  <2>2. call'[id].cred # <<>>
    <3>1. Fits(call'[id])
      BY <1>3 DEF Untouched, Shaped
    <3> QED BY <3>1 DEF Fits, Carrying
  <2> QED BY <1>2, <1>3, <2>1, <2>2 DEF Untouched
<1>4. CASE \E other \in Calls : Kinds(other)
  <2>1. PICK other \in Calls : Kinds(other)
    BY <1>4
  <2>2. /\ Only(other) /\ UNCHANGED <<key, raised, era, recording, since>>
        /\ call[other].cred # <<>> => Stays(other)
    BY <2>1, KindsMove
  <2>3. CASE other # id
    BY <1>2, <2>2, <2>3 DEF Only
  <2>4. CASE other = id
    <3>1. Passes(id) \/ Redeems(id)
      BY <2>1, <2>4 DEF Kinds, Pays, Copies, Broadcasts, Gets, TurnsAway, Fails, Spoils, Returns,
            Answers, Delivers, Breaks, Loses, Carries
    <3>2. Stays(id)
      BY <3>1 DEF Passes, Redeems, Carries
    <3>3. CASE Redeems(id)
      BY <1>2, <2>2, <3>2, <3>3 DEF Redeems, Stays
    <3>4. CASE Passes(id)
      <4> DEFINE r == call[id].route
                 c == Cred(id).challenge
      <4>1. Admits(r, c, key, price[r], now)
        BY <3>4 DEF Passes
      <4>2. r \in Routes
        BY <3>4 DEF Passes, Carries, Shaped, Fits
      <4>3. r \in Stating => c.amount = price[r]
        BY <4>1 DEF Stating, Admits, MatchesExpected
      <4>4. r \notin Metered => c.intent # "session"
        <5>1. GateOf[r] # "session" => GateOf[r] \in {"layer", "extractor", "composed"}
          BY <4>2, GateAssumption
        <5> QED BY <4>1, <4>2, <5>1 DEF Metered, Admits, VerifyCharge, PinnedFields, ComposeVerify
      <4>5. price' = price /\ Cred(id)' = Cred(id) /\ call'[id].route = r
        BY <2>2, <3>2 DEF price, Stays, Cred
      <4> QED BY <4>3, <4>4, <4>5
    <3> QED BY <3>1, <3>3, <3>4
  <2> QED BY <2>3, <2>4
<1>5. CASE Redeploys
  BY <1>5 DEF Redeploys
<1> QED BY <1>3, <1>4, <1>5, StepKinds, AsksUntouched

\* Who carries a payment settles it with the entry every carrier has.
LEMMA SameEntry ==
  ASSUME CredsMade, NEW a \in Paying, NEW b \in Paying, Cred(a).pay = Cred(b).pay
  PROVE  /\ Charges(Cred(a)) <=> Charges(Cred(b))
         /\ Charges(Cred(a)) =>
              /\ Entry(Cred(a)) = Entry(Cred(b))
              /\ Records(Cred(a)) <=> Records(Cred(b))
<1>1. Made(Cred(a)) /\ Made(Cred(b))
  BY DEF CredsMade
<1>2. Charges(Cred(a)) <=> Charges(Cred(b))
  BY <1>1 DEF Made, Charges
<1>3. CASE Cred(a).pay.how = "spt"
  BY <1>1, <1>3 DEF Made
<1>4. CASE Cred(a).pay.how # "spt"
  BY <1>1, <1>4 DEF Made, Entry, Charges, Records
<1> QED BY <1>2, <1>3, <1>4

\* A charge that counts as remembered was recorded.
LEMMA RememberedIsRecorded ==
  ASSUME CredsMade, NEW id \in Paying, Charges(Cred(id)),
         Cred(id).pay.how \in {"tx", "hash"} => recording
  PROVE  Records(Cred(id))
BY DEF CredsMade, Made, Charges, Records

\* What is forgotten is no credential.
LEMMA CredentialKept ==
  ASSUME CredsMade, NEW id \in Paying
  PROVE  Cred(id) \notin {x.pay : x \in Created}
<1> SUFFICES ASSUME NEW other \in Paying, Cred(id) = Cred(other).pay PROVE FALSE
  BY DEF Created
<1>1. /\ DOMAIN Cred(id) = {"challenge", "pay"}
      /\ DOMAIN Cred(other).pay = {"how", "amount", "mark", "at"}
  BY DEF CredsMade, Made
<1>2. {"challenge", "pay"} # {"how", "amount", "mark", "at"}
  OBVIOUS
<1> QED BY <1>1, <1>2

LEMMA ServedStays ==
  ASSUME Shaped, Growing, CredsMade, NEW d \in served, ServedHolds(d)
  PROVE  ServedHolds(d)'
<1>1. /\ d.call \in Paying' /\ Cred(d.call)' = Cred(d.call) /\ call'[d.call] = call[d.call]
      /\ d.call \in Paying
  BY CredentialsStay DEF ServedHolds, Growing
<1>2. d.era \in {0, era'}
  BY DEF ServedHolds, Growing, Recording, Restarts
<1>3. ASSUME Charges(Cred(d.call)), d \in OnRecord' PROVE Entry(Cred(d.call)) \in used'
  <2>1. d \in OnRecord
    BY <1>3 DEF OnRecord, Growing, Recording, Restarts, Shaped, ServedHolds
  <2>2. Entry(Cred(d.call)) \in used
    BY <1>3, <2>1 DEF ServedHolds
  <2>3. CASE used \subseteq used'
    BY <2>2, <2>3
  <2>4. CASE Restarts /\ since' = 1 /\ used' = used \ {x.pay : x \in Created}
    <3>1. d.pay.how \notin {"tx", "hash"}
      BY <1>3, <2>4 DEF OnRecord, Restarts, ServedHolds
    <3>2. Cred(d.call).pay = d.pay /\ Made(Cred(d.call))
      BY <1>1 DEF ServedHolds, CredsMade
    <3>3. Entry(Cred(d.call)) = Cred(d.call)
      BY <1>3, <3>1, <3>2 DEF Made, Charges, Entry
    <3> QED BY <1>1, <2>2, <2>4, <3>3, CredentialKept
  <2> QED BY <2>3, <2>4 DEF Growing, Recording, Restarts
<1> QED BY <1>1, <1>2, <1>3 DEF ServedHolds, Entry, Charges

\* A charge whose entry is free has not been settled or served for, as far as is known.
LEMMA UnusedMeansNew ==
  ASSUME Shaped, CredsMade, SettledOnce, NEW id \in Paying, Charges(Cred(id)),
         Entry(Cred(id)) \notin used
  PROVE  /\ \A d \in OnRecord : d.pay # Cred(id).pay
         /\ Records(Cred(id)) => \A other \in Calls :
              call[other].pc = "settled" => Cred(other).pay # Cred(id).pay
<1>1. ASSUME NEW d \in OnRecord PROVE d.pay # Cred(id).pay
  <2>1. d \in served
    BY DEF OnRecord
  <2> QED BY <2>1, SameEntry DEF SettledOnce, ServedHolds
<1>2. ASSUME NEW other \in Calls, call[other].pc = "settled", Records(Cred(id))
      PROVE  Cred(other).pay # Cred(id).pay
  <2>1. other \in Paying
    BY <1>2 DEF Shaped, Fits, Carrying, Paying
  <2> QED BY <1>2, <2>1, SameEntry DEF SettledOnce, SettledHolds
<1> QED BY <1>1, <1>2

LEMMA SettledOnceKept ==
  ASSUME Shaped, OffersGenuine, CredsMade, SettledOnce, [Next]_vars
  PROVE  SettledOnce'
<1>1. Growing /\ Shaped'
  BY StepGrows
<1>2. \A id \in Calls : call[id].pc = "settled" => id \in Paying
  BY DEF Shaped, Fits, Carrying, Paying
<1> DEFINE Holds == /\ \A id \in Calls : call'[id].pc = "settled" => SettledHolds(id)'
                    /\ \A d \in served' : ServedHolds(d)'
<1>3. Holds => SettledOnce'
  BY DEF SettledOnce
<1>4. CASE /\ \A id \in Calls : call'[id].pc = "settled" => call[id].pc = "settled" /\ Recording
           /\ UNCHANGED served
  <2>1. ASSUME NEW id \in Calls, call'[id].pc = "settled" PROVE SettledHolds(id)'
    <3>1. /\ call[id].pc = "settled" /\ Cred(id)' = Cred(id) /\ SettledHolds(id)
          /\ moved \subseteq moved' /\ used \subseteq used'
          /\ OnRecord' = OnRecord /\ recording' = recording
      BY <1>1, <1>2, <1>4, <2>1, CredentialsStay DEF SettledOnce, Growing, Recording, OnRecord
    <3>2. \A other \in Calls : call'[other].pc = "settled" =>
            call[other].pc = "settled" /\ Cred(other)' = Cred(other)
      BY <1>1, <1>2, <1>4, CredentialsStay
    <3> QED BY <3>1, <3>2 DEF SettledHolds, Entry, Charges, Records
  <2>2. ASSUME NEW d \in served' PROVE ServedHolds(d)'
    <3>1. d \in served /\ ServedHolds(d)
      BY <1>4 DEF SettledOnce
    <3> QED BY <1>1, <3>1, ServedStays
  <2> QED BY <1>3, <2>1, <2>2
<1>5. CASE \E id \in Calls : Redeems(id)
  <2>1. PICK id \in Calls : Redeems(id)
    BY <1>5
  <2>2. /\ call'[id].pc = "settled" /\ id \in Paying /\ Cred(id)' = Cred(id) /\ UNCHANGED served
        /\ moved' = moved \cup {Cred(id).pay} /\ used \subseteq used'
        /\ Charges(Cred(id)) =>
             /\ Entry(Cred(id)) \notin used
             /\ Records(Cred(id)) => Entry(Cred(id)) \in used'
        /\ call[id].pc = "admitted" /\ recording' = recording
        /\ \A other \in Calls \ {id} : call'[other] = call[other]
    BY <1>1, <2>1, CredentialsStay DEF Redeems, Carries, Only, Paying, Fixed
  <2>7. OnRecord' = OnRecord
    BY <2>1, <2>2 DEF OnRecord, Redeems, Carries, Fixed
  <2>3. \A other \in Calls \ {id} : call'[other].pc = "settled" =>
          call[other].pc = "settled" /\ Cred(other)' = Cred(other) /\ other \in Paying
    BY <1>1, <1>2, <2>2, CredentialsStay
  <2>4. SettledHolds(id)'
    <3>1. Charges(Cred(id)) /\ Records(Cred(id)) =>
            /\ \A d \in OnRecord : d.pay # Cred(id).pay
            /\ \A other \in Calls : call[other].pc = "settled" => Cred(other).pay # Cred(id).pay
      BY <2>2, UnusedMeansNew
    <3> QED BY <2>2, <2>3, <2>7, <3>1 DEF SettledHolds, Entry, Charges, Records
  <2>5. ASSUME NEW other \in Calls \ {id}, call'[other].pc = "settled"
        PROVE  SettledHolds(other)'
    <3>1. /\ call[other].pc = "settled" /\ Cred(other)' = Cred(other) /\ other \in Paying
          /\ SettledHolds(other)
      BY <2>3, <2>5 DEF SettledOnce
    <3>2. Charges(Cred(other)) /\ Records(Cred(other)) => Cred(id).pay # Cred(other).pay
      <4> SUFFICES ASSUME Charges(Cred(other)), Records(Cred(other)),
                          Cred(id).pay = Cred(other).pay
                   PROVE  FALSE
        OBVIOUS
      <4>1. Charges(Cred(id)) /\ Entry(Cred(id)) = Entry(Cred(other))
        BY <2>2, <3>1, SameEntry
      <4> QED BY <2>2, <3>1, <4>1 DEF SettledHolds
    <3> QED BY <2>2, <2>3, <2>7, <3>1, <3>2 DEF SettledHolds, Entry, Charges, Records
  <2>6. ASSUME NEW d \in served' PROVE ServedHolds(d)'
    <3>1. d \in served /\ ServedHolds(d)
      BY <2>2 DEF SettledOnce
    <3> QED BY <1>1, <3>1, ServedStays
  <2> QED BY <1>3, <2>4, <2>5, <2>6
<1>6. CASE \E id \in Calls : Delivers(id)
  <2>1. PICK id \in Calls : Delivers(id)
    BY <1>6
  <2> DEFINE new == [call |-> id, route |-> call[id].route, pay |-> Cred(id).pay,
                           era |-> era]
  <2>2. /\ call[id].pc = "settled" /\ call'[id].pc = "done"
        /\ id \in Paying' /\ Cred(id)' = Cred(id)
        /\ served' = served \cup {new}
        /\ UNCHANGED <<moved, used, era, recording, since>>
        /\ \A other \in Calls \ {id} : call'[other] = call[other]
    BY <1>1, <1>2, <2>1, CredentialsStay DEF Delivers, Carries, Only, Fixed
  <2>3. new.call = id /\ new.pay = Cred(id).pay /\ new.era = era
    OBVIOUS
  <2> HIDE DEF new
  <2>4. SettledHolds(id) /\ id \in Paying
    BY <1>2, <2>2 DEF SettledOnce
  <2>7. OnRecord' \subseteq OnRecord \cup {new}
    BY <2>2 DEF OnRecord
  <2>5. ASSUME NEW other \in Calls, call'[other].pc = "settled"
        PROVE  SettledHolds(other)'
    <3>1. /\ other # id /\ call[other].pc = "settled" /\ Cred(other)' = Cred(other)
          /\ other \in Paying /\ SettledHolds(other)
      BY <1>1, <1>2, <2>2, <2>5, CredentialsStay DEF SettledOnce
    <3>2. \A more \in Calls : call'[more].pc = "settled" =>
            call[more].pc = "settled" /\ Cred(more)' = Cred(more)
      BY <1>1, <1>2, <2>2, CredentialsStay
    <3>3. Charges(Cred(other)) /\ Records(Cred(other)) => new.pay # Cred(other).pay
      BY <2>2, <2>3, <3>1 DEF SettledHolds
    <3> QED BY <2>2, <2>7, <3>1, <3>2, <3>3 DEF SettledHolds, Entry, Charges, Records
  <2>6. ASSUME NEW d \in served' PROVE ServedHolds(d)'
    <3>1. CASE d \in served
      BY <1>1, <3>1, ServedStays DEF SettledOnce
    <3>2. CASE d = new
      <4>1. ASSUME Charges(Cred(id)), new \in OnRecord' PROVE Entry(Cred(id)) \in used
        <5>1. Cred(id).pay.how \in {"tx", "hash"} => recording
          BY <2>2, <2>3, <4>1 DEF OnRecord
        <5>2. Records(Cred(id))
          BY <2>4, <4>1, <5>1, RememberedIsRecorded
        <5> QED BY <2>4, <4>1, <5>2 DEF SettledHolds
      <4> QED BY <2>2, <2>3, <3>2, <4>1 DEF ServedHolds, Entry, Charges
    <3> QED BY <2>2, <3>1, <3>2
  <2> QED BY <1>3, <2>5, <2>6
<1>7. CASE Untouched \/ Redeploys
  <2>1. UNCHANGED served
    BY <1>7 DEF Untouched, Redeploys
  <2>2. \A id \in Calls : call'[id].pc = "settled" => call'[id].cred # <<>>
    BY <1>1 DEF Shaped, Fits, Carrying
  <2>3. \A id \in Calls : call'[id].pc = "settled" => call[id].pc = "settled" /\ Recording
    BY <1>7, <2>2 DEF Untouched, Redeploys, Recording
  <2> QED BY <1>4, <2>1, <2>3
<1>8. CASE \E id \in Calls : Kinds(id) /\ ~Redeems(id) /\ ~Delivers(id)
  <2>1. PICK id \in Calls : Kinds(id) /\ ~Redeems(id) /\ ~Delivers(id)
    BY <1>8
  <2>2. Only(id) /\ Recording
    BY <2>1, KindsMove DEF Recording
  <2>3. CASE Pays(id) \/ Copies(id) \/ Broadcasts(id)
    <3>1. call'[id].pc # "settled" /\ UNCHANGED served
      BY <2>3 DEF Pays, Copies, Broadcasts, Gets, Quiet
    <3> QED BY <1>4, <2>2, <3>1 DEF Only
  <2>4. CASE \/ Passes(id) \/ TurnsAway(id) \/ Fails(id) \/ Spoils(id) \/ Returns(id)
             \/ Answers(id) \/ Breaks(id) \/ Loses(id)
    <3>1. call'[id].pc # "settled" /\ UNCHANGED served
      BY <2>4 DEF Passes, TurnsAway, Fails, Spoils, Returns, Answers, Breaks, Loses, Carries, Quiet
    <3> QED BY <1>4, <2>2, <3>1 DEF Only
  <2> QED BY <2>1, <2>3, <2>4 DEF Kinds
<1> QED BY <1>5, <1>6, <1>7, <1>8, StepKinds, AsksUntouched

-----------------------------------------------------------------------------
(* What becomes of a payment.                                              *)

\* A request that was settled goes on to a delivery or to a cause.
Settles(id) ==
  \/ call'[id].pc = "settled" \/ call'[id].outcome = "lost" \/ id \in troubled'
  \/ \E d \in served' : d.pay = Cred(id).pay
  \/ Cred(id).pay.how = "open" \/ Redeployed'

LEMMA SettledGoOn ==
  ASSUME Shaped, OffersGenuine, [Next]_vars, NEW id \in Calls, call[id].pc = "settled"
  PROVE  Settles(id)
<1>1. call[id].cred # <<>>
  BY DEF Shaped, Fits, Carrying
<1>2. CASE call'[id].pc = "settled"
  BY <1>2 DEF Settles
<1>3. CASE Untouched
  BY <1>1, <1>2, <1>3 DEF Untouched
<1>4. CASE Redeploys
  BY <1>4 DEF Redeploys, Settles
<1>5. CASE \E other \in Calls : Kinds(other)
  <2>1. PICK other \in Calls : Kinds(other)
    BY <1>5
  <2>2. CASE other # id
    BY <1>2, <2>1, <2>2, KindsMove DEF Only
  <2>3. CASE other = id
    <3>1. Answers(id) \/ Delivers(id) \/ Breaks(id) \/ Loses(id)
      BY <1>1, <2>1, <2>3 DEF Kinds, Pays, Copies, Broadcasts, Gets, Passes, TurnsAway, Redeems,
            Fails, Spoils, Returns
    <3>2. CASE Delivers(id)
      <4> DEFINE new == [call |-> id, route |-> call[id].route, pay |-> Cred(id).pay,
                           era |-> era]
      <4>1. new \in served' /\ new.pay = Cred(id).pay
        BY <3>2 DEF Delivers
      <4> QED BY <4>1 DEF Settles
    <3>3. CASE Answers(id) \/ Breaks(id) \/ Loses(id)
      BY <3>3 DEF Answers, Breaks, Loses, Carries, Settles
    <3> QED BY <3>1, <3>2, <3>3
  <2> QED BY <2>2, <2>3
<1> QED BY <1>3, <1>4, <1>5, StepKinds, AsksUntouched

\* What became of a payment is not undone.
LEMMA AccountedStays ==
  ASSUME Shaped, OffersGenuine, [Next]_vars, NEW pay, Accounted(pay)
  PROVE  Accounted(pay)'
<1>1. Growing /\ Shaped'
  BY StepGrows
<1>2. CASE (\E d \in served : d.pay = pay) \/ pay.how = "open" \/ Redeployed
  BY <1>1, <1>2, StaysRedeployed DEF Accounted, Growing
<1>3. ASSUME NEW id \in Carriers(pay),
             call[id].pc = "settled" \/ call[id].outcome = "lost" \/ id \in troubled
      PROVE  Accounted(pay)'
  <2>1. id \in Carriers(pay)' /\ id \in Calls /\ id \in Paying /\ Cred(id).pay = pay
    BY <1>1, CredentialsStay DEF Carriers, Paying
  <2>2. CASE id \in troubled
    BY <1>1, <2>1, <2>2 DEF Growing, Accounted
  <2>3. CASE call[id].outcome = "lost"
    <3>1. call[id].pc = "done"
      BY <2>1, <2>3 DEF Shaped, Fits
    <3>2. call'[id] = call[id]
      BY <1>1, <2>1, <3>1 DEF Growing
    <3> QED BY <2>1, <2>3, <3>2 DEF Accounted
  <2>4. CASE call[id].pc = "settled"
    BY <2>1, <2>4, SettledGoOn DEF Settles, Accounted
  <2> QED BY <1>3, <2>2, <2>3, <2>4
<1> QED BY <1>2, <1>3 DEF Accounted

\* What the node returns is a transfer's own entry.
LEMMA ReturnsTransfer ==
  ASSUME CredsMade, NEW id \in Paying, Cred(id).pay.how = "tx"
  PROVE  Charges(Cred(id)) /\ Entry(Cred(id)) = Cred(id).pay
BY DEF CredsMade, Made, Charges, Entry

LEMMA UsedByKept ==
  ASSUME Shaped, OffersGenuine, CredsMade, UsedBy, [Next]_vars
  PROVE  UsedBy'
<1>1. Growing /\ Shaped'
  BY StepGrows
<1> DEFINE By(entry) == \E id \in Paying :
             /\ call[id].pc \in {"settled", "done"}
             /\ \/ Cred(id) = entry
                \/ Cred(id).pay = entry /\ (entry.how = "hash" => Accounted(entry))
<1>2. ASSUME NEW entry \in used PROVE By(entry)'
  <2>1. PICK id \in Paying :
          /\ call[id].pc \in {"settled", "done"}
          /\ \/ Cred(id) = entry
             \/ Cred(id).pay = entry /\ (entry.how = "hash" => Accounted(entry))
    BY DEF UsedBy
  <2>2. PICK e : e = entry
    OBVIOUS
  <2>3. Accounted(e) => Accounted(e)'
    BY AccountedStays
  <2>4. id \in Paying' /\ Cred(id)' = Cred(id)
    BY <1>1, CredentialsStay
  <2>5. call'[id].pc \in {"settled", "done"}
    <3>1. CASE call[id].pc = "done"
      BY <1>1, <3>1 DEF Growing
    <3>2. CASE call[id].pc = "settled"
      <4>1. id \in Calls /\ call[id].cred # <<>>
        BY DEF Paying
      <4>2. CASE Untouched
        BY <3>2, <4>1, <4>2 DEF Untouched
      <4>3. CASE Redeploys
        BY <3>2, <4>1, <4>3 DEF Redeploys
      <4>4. CASE \E other \in Calls : Kinds(other)
        <5>1. PICK other \in Calls : Kinds(other)
          BY <4>4
        <5>2. CASE other # id
          BY <3>2, <4>1, <5>1, <5>2, KindsMove DEF Only
        <5>3. CASE other = id
          BY <3>2, <4>1, <5>1, <5>3 DEF Kinds, Pays, Copies, Broadcasts, Gets, Passes, TurnsAway,
                Redeems, Fails, Spoils, Returns, Answers, Delivers, Breaks, Loses, Carries
        <5> QED BY <5>2, <5>3
      <4> QED BY <4>2, <4>3, <4>4, StepKinds, AsksUntouched
    <3> QED BY <2>1, <3>1, <3>2
  <2> QED BY <2>1, <2>2, <2>3, <2>4, <2>5
<1>3. CASE used' \subseteq used
  BY <1>2, <1>3 DEF UsedBy
<1>4. ASSUME NEW id \in Calls, Redeems(id) \/ Fails(id) \/ Returns(id) PROVE UsedBy'
  <2>1. /\ id \in Paying /\ used' \in {used, used \cup {Entry(Cred(id))}}
        /\ call'[id].pc \in {"settled", "done"}
        /\ call'[id].pc = "settled" \/ id \in troubled' \/ Cred(id).pay.how # "hash"
    BY <1>4, ReturnsTransfer DEF Redeems, Fails, Returns, Carries, Paying
  <2>2. id \in Paying' /\ Cred(id)' = Cred(id)
    BY <1>1, <2>1, CredentialsStay
  <2>3. PICK e : e = Entry(Cred(id))
    OBVIOUS
  <2>4. e = Cred(id) \/ (e = Cred(id).pay /\ (e.how = "hash" => Accounted(e)'))
    BY <2>1, <2>2, <2>3 DEF Entry, Accounted, Carriers
  <2>5. By(e)'
    BY <2>1, <2>2, <2>4
  <2> HIDE DEF By
  <2>6. \A entry \in used' : By(entry)'
    BY <1>2, <2>1, <2>3, <2>5
  <2> QED BY <2>6 DEF UsedBy, By
<1>5. ASSUME NEW id \in Calls, Kinds(id), ~Redeems(id), ~Fails(id), ~Returns(id)
      PROVE  UNCHANGED used
  BY <1>5 DEF Kinds, Pays, Copies, Broadcasts, Passes, TurnsAway, Spoils, Answers, Delivers,
        Breaks, Loses, Quiet
<1>6. Untouched \/ Redeploys => used' \subseteq used
  BY DEF Untouched, Redeploys, Restarts
<1> QED BY <1>3, <1>4, <1>5, <1>6, StepKinds, AsksUntouched

\* The gate turns a credential away for a cause.
LEMMA TurnedAwayForCause ==
  ASSUME Shaped, OffersGenuine, CredsMade, Growing, NEW id \in Calls, TurnsAway(id)
  PROVE  Redeployed \/ HandedOn(id) \/ Garbled(id) \/ TooLate(id)'
<1> SUFFICES ASSUME ~Redeployed, ~HandedOn(id), ~Garbled(id) PROVE TooLate(id)'
  OBVIOUS
<1> DEFINE r == call[id].route
           c == Cred(id).challenge
           pay == Cred(id).pay
<1>1. id \in Paying /\ r \in Routes /\ Cred(id)' = Cred(id) /\ call'[id].ended = now
  BY CredentialsStay DEF TurnsAway, Carries, Paying, Shaped, Fits
<1>2. c = call[id].offers[1] /\ c.opaque = PinnedTo[r]
  BY DEF HandedOn, Garbled
<1>3. Genuine(r, c)
  BY <1>1, <1>2 DEF OffersGenuine, Paying
<1>4. key = 0 /\ price[r] = BasePrice[r]
  <2>1. key = 0 /\ raised = 0
    BY DEF Redeployed, Shaped
  <2>2. BasePrice[r] \in Nat
    BY <1>1, GateAssumption
  <2> QED BY <1>1, <2>1, <2>2 DEF price
<1>5. ~Admits(r, c, 0, BasePrice[r], now)
  BY <1>4 DEF TurnsAway
<1> HIDE DEF r, c
<1>6. IsExpired(c, now)
  BY <1>1, <1>2, <1>3, <1>5, GenuineAdmitted
<1>7. pay.how = "hash" \/ ~IsExpired(c, pay.at)
  BY <1>1 DEF CredsMade, Made, c
<1> QED BY <1>1, <1>6, <1>7 DEF TooLate, c

LEMMA PendingGoesOn ==
  ASSUME Shaped, OffersGenuine, CredsMade, UsedBy, [Next]_vars, NEW pay, Pending(pay)
  PROVE  Accounted(pay)' \/ Pending(pay)'
<1> DEFINE id == pay.mark
<1>1. Growing
  BY StepGrows
<1>2. /\ pay.how = "hash" /\ id \in Calls /\ id \in Paying /\ Cred(id).pay = pay /\ ~HandedOn(id)
      /\ call[id].cred # <<>>
  BY DEF Pending, Carriers, Paying
<1> HIDE DEF id
<1>3. /\ id \in Carriers(pay)' /\ ~HandedOn(id)' /\ Cred(id)' = Cred(id)
      /\ Garbled(id)' <=> Garbled(id)
  BY <1>1, <1>2, CredentialsStay DEF Carriers
<1>4. CASE call[id].pc = "done"
  BY <1>1, <1>2, <1>3, <1>4, CredentialsStay DEF Pending, Growing, id
<1>5. CASE call'[id].pc \in {"retried", "admitted"}
  BY <1>2, <1>3, <1>5 DEF Pending, id
<1>6. CASE call[id].pc \in {"retried", "admitted"}
  <2>1. CASE Untouched
    BY <1>2, <1>5, <1>6, <2>1 DEF Untouched
  <2>2. CASE Redeploys
    BY <1>3, <2>2 DEF Redeploys, Restarts, Accounted, Redeployed
  <2>3. CASE \E other \in Calls : Kinds(other)
    <3>1. PICK other \in Calls : Kinds(other)
      BY <2>3
    <3>2. CASE other # id
      BY <1>2, <1>5, <1>6, <3>1, <3>2, KindsMove DEF Only
    <3>3. CASE other = id
      <4>1. Passes(id) \/ TurnsAway(id) \/ Redeems(id) \/ Fails(id) \/ Spoils(id) \/ Loses(id)
        BY <1>2, <1>6, <3>1, <3>3 DEF Kinds, Pays, Copies, Broadcasts, Gets, Returns, Answers,
              Delivers, Breaks
      <4>2. CASE Passes(id)
        BY <1>5, <4>2 DEF Passes, Carries
      <4>3. CASE TurnsAway(id)
        <5>1. CASE Redeployed
          BY <1>1, <5>1, StaysRedeployed DEF Accounted
        <5>2. CASE Garbled(id) \/ TooLate(id)'
          <6>1. call'[id].pc = "done"
            BY <4>3 DEF TurnsAway, Carries
          <6> QED BY <1>2, <1>3, <5>2, <6>1 DEF Pending, id
        <5> QED BY <1>1, <1>2, <4>3, <5>1, <5>2, TurnedAwayForCause
      <4>4. CASE Redeems(id) \/ Fails(id) \/ Loses(id)
        BY <1>3, <4>4 DEF Redeems, Fails, Loses, Carries, Accounted
      <4>5. CASE Spoils(id)
        <5>1. Made(Cred(id))
          BY <1>2 DEF CredsMade
        <5>2. Entry(Cred(id)) = pay /\ Entry(Cred(id)) \in used
          BY <1>2, <4>5, <5>1 DEF Spoils, Made, Entry, Charges
        <5>3. PICK k \in Paying : Cred(k) = pay \/ Accounted(pay)
          BY <1>2, <5>2 DEF UsedBy
        <5>4. Made(Cred(k))
          BY DEF CredsMade
        <5>5. Cred(k) # pay
          <6>1. /\ DOMAIN Cred(k) = {"challenge", "pay"}
                /\ DOMAIN pay = {"how", "amount", "mark", "at"}
            BY <1>2, <5>1, <5>4 DEF Made
          <6>2. {"challenge", "pay"} # {"how", "amount", "mark", "at"}
            OBVIOUS
          <6> QED BY <6>1, <6>2
        <5> QED BY <5>3, <5>5, AccountedStays
      <4> QED BY <4>1, <4>2, <4>3, <4>4, <4>5
    <3> QED BY <3>2, <3>3
  <2> QED BY <2>1, <2>2, <2>3, StepKinds, AsksUntouched
<1> QED BY <1>4, <1>6 DEF Pending, id

LEMMA MovedForKept ==
  ASSUME Shaped, OffersGenuine, CredsMade, UsedBy, MovedFor, [Next]_vars
  PROVE  MovedFor'
<1> SUFFICES ASSUME NEW pay, pay \in moved' PROVE Accounted(pay)' \/ Pending(pay)'
  BY DEF MovedFor
<1>1. Growing
  BY StepGrows
<1>2. CASE pay \in moved
  BY <1>2, AccountedStays, PendingGoesOn DEF MovedFor
<1>3. ASSUME NEW id \in Calls, pay \notin moved, Redeems(id) \/ Fails(id)
      PROVE  Accounted(pay)'
  <2>1. /\ id \in Paying /\ pay = Cred(id).pay
        /\ call'[id].pc = "settled" \/ id \in troubled'
    BY <1>3 DEF Redeems, Fails, Carries, Paying
  <2>2. id \in Carriers(pay)'
    BY <1>1, <2>1, CredentialsStay DEF Carriers
  <2> QED BY <2>1, <2>2 DEF Accounted
<1>4. ASSUME NEW id \in Calls, pay \notin moved, Broadcasts(id)
      PROVE  Pending(pay)'
  <2>1. PICK x : x = Credential(call[id].offers[1], Fresh("hash", id, call[id].offers[1]))
    OBVIOUS
  <2>2. x.pay.how = "hash" /\ x.pay.mark = id /\ ~HandedOn(id)'
    BY <1>1, <1>4, <2>1, BroadcastMade
  <2>3. pay = x.pay /\ Gets(id, x)
    BY <1>4, <2>1 DEF Broadcasts, Credential
  <2>4. id \in Carriers(pay)' /\ call'[id].pc = "retried"
    BY <1>1, <2>3, GotCredential DEF Carriers, Gets
  <2> QED BY <2>2, <2>3, <2>4 DEF Pending
<1>5. ASSUME NEW id \in Calls, Kinds(id), ~Redeems(id), ~Fails(id), ~Broadcasts(id)
      PROVE  UNCHANGED moved
  BY <1>5 DEF Kinds, Pays, Copies, Passes, TurnsAway, Spoils, Returns, Answers, Delivers,
        Breaks, Loses, Quiet
<1>6. Untouched \/ Redeploys => UNCHANGED moved
  BY DEF Untouched, Redeploys
<1> QED BY <1>2, <1>3, <1>4, <1>5, <1>6, StepKinds, AsksUntouched

LEMMA OffersKept ==
  ASSUME Shaped, OffersGenuine, [Next]_vars
  PROVE  OffersGenuine'
<1> SUFFICES ASSUME ~Redeployed', NEW id \in Calls
             PROVE  LET c == call'[id] IN
                    /\ c.pc = "challenged" => \A i \in DOMAIN c.offers : Genuine(c.route, c.offers[i])
                    /\ c.pc = "chosen" \/ c.cred # <<>> => Genuine(c.route, c.offers[1])
  BY DEF OffersGenuine
<1>1. Growing /\ ~Redeployed
  BY StepGrows, StaysRedeployed
<1>2. CASE call'[id] = call[id]
  BY <1>1, <1>2 DEF OffersGenuine
<1>3. CASE \E other \in Calls : Asks(other)
  <2>1. PICK other \in Calls : Asks(other)
    BY <1>3
  <2>2. CASE other # id
    BY <1>2, <2>1, <2>2 DEF Asks, Only
  <2>3. CASE other = id
    BY <1>1, <2>1, <2>3 DEF Asks
  <2> QED BY <2>2, <2>3
<1>4. CASE \E other \in Calls : Kinds(other)
  <2>1. PICK other \in Calls : Kinds(other)
    BY <1>4
  <2>2. CASE other # id
    BY <1>2, <2>1, <2>2, KindsMove DEF Only
  <2>3. CASE other = id
    <3>1. /\ call'[id].route = call[id].route /\ call'[id].offers = call[id].offers
          /\ call[id].pc = "chosen" \/ call[id].cred # <<>>
          /\ call'[id].pc # "challenged"
      BY <2>1, <2>3 DEF Kinds, Pays, Copies, Broadcasts, Gets, Passes, TurnsAway,
            Redeems, Fails, Spoils, Returns, Answers, Delivers, Breaks, Loses, Carries, Stays
    <3> QED BY <1>1, <3>1 DEF OffersGenuine
  <2> QED BY <2>2, <2>3
<1>5. ~Redeploys
  BY DEF Redeploys, Restarts, Redeployed
<1> QED BY <1>2, <1>3, <1>4, <1>5, StepKinds

LEMMA TwoOrMore ==
  ASSUME NEW S, IsFiniteSet(S), NEW a \in S, NEW b \in S, a # b
  PROVE  Cardinality(S) > 1
<1>1. IsFiniteSet({a}) /\ Cardinality({a}) = 1
  BY FS_Singleton
<1>2. {a} \subseteq S /\ {a} # S
  OBVIOUS
<1>3. Cardinality({a}) <= Cardinality(S) /\ Cardinality({a}) # Cardinality(S)
  BY <1>2, FS_Subset
<1>4. Cardinality(S) \in Nat
  BY FS_CardinalityType
<1> QED BY <1>1, <1>3, <1>4

LEMMA RefusedKept ==
  ASSUME Shaped, OffersGenuine, CredsMade, SettledOnce, UsedBy, MovedFor, RefusedForCause,
         [Next]_vars
  PROVE  RefusedForCause'
<1> SUFFICES ASSUME NEW id \in Calls, call'[id].pc = "done", call'[id].outcome = "refused",
                    NEW pay, pay = Cred(id)'.pay
             PROVE
               \/ Redeployed' \/ id \in troubled' \/ TooLate(id)' \/ HandedOn(id)' \/ Garbled(id)'
               \/ Cardinality(Carriers(pay)') > 1
               \/ pay.how = "voucher" /\ \E other \in Created' : other.pay.how = "open"
  BY DEF RefusedForCause, Ended
<1>1. Growing /\ Shaped'
  BY StepGrows
<1>2. call'[id].cred # <<>>
  BY <1>1 DEF Shaped, Fits
<1>3. IsFiniteSet(Carriers(pay)') /\ Carriers(pay) \subseteq Carriers(pay)'
  <2>1. Carriers(pay)' \subseteq Calls
    BY DEF Carriers, Paying
  <2> QED BY <1>1, <2>1, PaidAssumption, FS_Subset, CredentialsStay
<1>4. CASE call[id].pc = "done" /\ call[id].cred # <<>>
  <2>1. id \in Paying /\ call'[id] = call[id] /\ Cred(id).pay = pay
    BY <1>1, <1>4 DEF Paying, Growing, Cred
  <2>2. \/ Redeployed \/ id \in troubled \/ TooLate(id) \/ HandedOn(id) \/ Garbled(id)
        \/ Cardinality(Carriers(pay)) > 1
        \/ pay.how = "voucher" /\ \E other \in Created : other.pay.how = "open"
    BY <1>4, <2>1 DEF RefusedForCause, Ended
  <2>3. CASE Cardinality(Carriers(pay)) > 1
    <3>1. /\ IsFiniteSet(Carriers(pay)) /\ Cardinality(Carriers(pay)) \in Nat
          /\ Cardinality(Carriers(pay)') \in Nat
          /\ Cardinality(Carriers(pay)) <= Cardinality(Carriers(pay)')
      BY <1>3, FS_Subset, FS_CardinalityType
    <3> QED BY <2>3, <3>1
  <2> QED
    BY <1>1, <1>4, <2>1, <2>2, <2>3, CredentialsStay, StaysRedeployed DEF Growing
<1>5. CASE ~(call[id].pc = "done" /\ call[id].cred # <<>>)
  <2>1. ~Untouched /\ ~Redeploys
    BY <1>2, <1>5 DEF Untouched, Redeploys
  <2>2. PICK other \in Calls : Kinds(other)
    BY <2>1, StepKinds, AsksUntouched
  <2>3. other = id
    BY <1>2, <1>5, <2>2, KindsMove DEF Only
  <2>4. TurnsAway(id) \/ Fails(id) \/ Spoils(id) \/ Returns(id)
    BY <2>2, <2>3 DEF Kinds, Pays, Copies, Broadcasts, Gets, Passes, Redeems, Answers, Delivers,
          Breaks, Loses, Carries
  <2>5. /\ id \in Paying /\ Cred(id)' = Cred(id) /\ Cred(id).pay = pay
        /\ call'[id].ended = now
    BY <1>1, <2>4, CredentialsStay DEF TurnsAway, Fails, Spoils, Returns, Carries, Paying
  <2>6. CASE TurnsAway(id)
    BY <1>1, <2>5, <2>6, TurnedAwayForCause, CredentialsStay, StaysRedeployed
  <2>7. CASE Fails(id)
    BY <2>7 DEF Fails
  <2>8. CASE Spoils(id)
    <3>1. CASE Charges(Cred(id)) /\ Entry(Cred(id)) \in used
      <4>1. PICK k \in Paying :
              /\ call[k].pc \in {"settled", "done"}
              /\ Cred(k) = Entry(Cred(id)) \/ Cred(k).pay = Entry(Cred(id))
        BY <3>1 DEF UsedBy
      <4>2. Made(Cred(k)) /\ Made(Cred(id))
        BY <2>5 DEF CredsMade
      <4>3. k # id
        BY <2>8, <4>1 DEF Spoils
      <4>4. Cred(k).pay = pay
        <5>1. /\ DOMAIN Cred(k) = {"challenge", "pay"} /\ DOMAIN Cred(id) = {"challenge", "pay"}
              /\ DOMAIN Cred(k).pay = {"how", "amount", "mark", "at"}
              /\ DOMAIN pay = {"how", "amount", "mark", "at"}
          BY <2>5, <4>2 DEF Made
        <5>2. {"challenge", "pay"} # {"how", "amount", "mark", "at"}
          OBVIOUS
        <5>3. Entry(Cred(id)) = Cred(id) \/ Entry(Cred(id)) = pay
          BY <2>5 DEF Entry
        <5>4. Cred(k) # pay /\ Cred(k).pay # Cred(id)
          BY <5>1, <5>2
        <5> QED BY <2>5, <4>1, <5>3, <5>4
      <4>5. id \in Carriers(pay)' /\ k \in Carriers(pay)'
        BY <1>1, <2>5, <4>4, CredentialsStay DEF Carriers
      <4>6. Cardinality(Carriers(pay)') > 1
        BY <1>3, <4>3, <4>5, TwoOrMore
      <4> QED BY <2>5, <4>6
    <3>3. CASE pay.how = "voucher"
      <4>1. OpenMade'
        BY <1>1, <2>5, <3>3, OpenStays DEF CredsMade
      <4> QED BY <2>5, <3>3, <4>1 DEF OpenMade, Created
    <3> QED BY <2>5, <2>8, <3>1, <3>3 DEF Spoils
  <2>9. CASE Returns(id)
    <3>1. CASE now > pay.at + ValidFor
      BY <2>5, <2>9, <3>1 DEF Returns, TooLate
    <3>2. CASE pay \in moved
      <4>1. pay.how = "tx" /\ call[id].pc = "admitted"
        BY <2>5, <2>9 DEF Returns
      <4>2. Accounted(pay)
        BY <3>2, <4>1 DEF MovedFor, Pending
      <4>3. ASSUME NEW k \in Carriers(pay), k # id
            PROVE  Cardinality(Carriers(pay)') > 1
        <5>1. id \in Carriers(pay)' /\ k \in Carriers(pay)'
          BY <1>3, <2>5 DEF Carriers
        <5> QED BY <1>3, <4>3, <5>1, TwoOrMore
      <4>4. ASSUME NEW d \in served, d.pay = pay PROVE Cardinality(Carriers(pay)') > 1
        <5>1. d.call \in Carriers(pay) /\ d.call # id
          BY <4>1, <4>4 DEF SettledOnce, ServedHolds, Carriers
        <5> QED BY <4>3, <5>1
      <4>5. ASSUME NEW k \in Carriers(pay),
                   call[k].pc = "settled" \/ call[k].outcome = "lost" \/ k \in troubled
            PROVE  id \in troubled' \/ Cardinality(Carriers(pay)') > 1
        <5>1. CASE k = id
          BY <1>1, <4>1, <4>5, <5>1 DEF Growing, Shaped, Fits
        <5> QED BY <4>3, <5>1
      <4> QED BY <1>1, <4>1, <4>2, <4>4, <4>5, StaysRedeployed DEF Accounted
    <3> QED BY <2>5, <2>9, <3>1, <3>2 DEF Returns
  <2> QED BY <2>4, <2>6, <2>7, <2>8, <2>9
<1> QED BY <1>4, <1>5

-----------------------------------------------------------------------------
(* The theorems.                                                           *)

LEMMA InitInv ==
  ASSUME Init
  PROVE  Inv
<1>1. /\ call = [id \in Calls |-> Idle] /\ opened = FALSE /\ moved = {} /\ used = {}
      /\ served = {} /\ key = 0 /\ raised = 0 /\ era = 0 /\ since = 0
  BY DEF Init
<1>2. \A id \in Calls : call[id] = Idle
  BY <1>1
<1>3. /\ DOMAIN Idle = Fields /\ Idle.pc = "new" /\ Idle.cred = <<>> /\ Idle.outcome = "none"
      /\ Idle.ranking = NoPreference /\ Idle.sent = NoPreference
  BY DEF Idle, Fields
<1>4. Fits(Idle)
  BY <1>3 DEF Fits, Before, Carrying
<1>5. Shaped
  BY <1>1, <1>2, <1>4 DEF Shaped
<1>6. Paying = {}
  BY <1>2, <1>3 DEF Paying
<1>7. CredsMade /\ UsedBy /\ MovedFor
  BY <1>1, <1>6 DEF CredsMade, UsedBy, MovedFor
<1>8. Admitted /\ SettledOnce /\ OffersGenuine /\ RefusedForCause
  BY <1>1, <1>2, <1>3 DEF Admitted, SettledOnce, OffersGenuine, RefusedForCause, Ended
<1> QED BY <1>5, <1>7, <1>8 DEF Inv

\* What a step looks like to someone who sees only prices, payments and deliveries.
LEMMA StepBuys ==
  ASSUME Inv, [Next]_vars
  PROVE  [Buys!Move \/ Buys!Deliver \/ Buys!Restart]_(Buys!purchaseVars)
<1>1. Shaped /\ CredsMade /\ Admitted /\ SettledOnce /\ OffersGenuine
  BY DEF Inv
<1>2. CASE UNCHANGED <<price, moved, served, OnRecord>>
  BY <1>2 DEF Buys!purchaseVars
<1>3. CASE UNCHANGED <<price, served, OnRecord>> /\ \E p : moved' = moved \cup {p}
  <2>1. PICK p : moved' = moved \cup {p}
    BY <1>3
  <2>2. CASE p \in moved
    BY <1>2, <1>3, <2>1, <2>2
  <2>3. CASE p \notin moved
    BY <1>3, <2>1, <2>3 DEF Buys!Move
  <2> QED BY <2>2, <2>3
<1>4. ASSUME NEW id \in Calls, Delivers(id)
      PROVE  [Buys!Move \/ Buys!Deliver \/ Buys!Restart]_(Buys!purchaseVars)
  <2> DEFINE r == call[id].route
             pay == Cred(id).pay
             new == [call |-> id, route |-> r, pay |-> pay, era |-> era]
  <2>1. /\ call[id].pc = "settled" /\ id \in Paying /\ served' = served \cup {new}
        /\ UNCHANGED <<price, moved, era, recording, since>>
    BY <1>4 DEF Delivers, Carries, Fixed, Paying, price
  <2>2. new.call = id /\ new.route = r /\ new.pay = pay
    OBVIOUS
  <2> HIDE DEF new
  <2>3. SettledHolds(id)
    BY <1>1, <2>1 DEF SettledOnce
  <2>4. \A d \in served : d.call # id
    BY <1>1, <2>1 DEF SettledOnce, ServedHolds
  <2>5. ASSUME r \notin Metered, NEW d \in OnRecord PROVE d.pay # pay
    <3>1. Charges(Cred(id))
      BY <1>1, <2>1, <2>5 DEF Admitted, Charges
    <3>2. CASE pay.how \in {"tx", "hash"} => recording
      BY <1>1, <2>1, <2>3, <3>1, <3>2, RememberedIsRecorded DEF SettledHolds
    <3>3. CASE pay.how \in {"tx", "hash"} /\ ~recording
      BY <3>3 DEF OnRecord
    <3> QED BY <3>2, <3>3
  <2>6. r \in Stating => pay.amount = price[r]
    BY <1>1, <2>1 DEF Admitted, CredsMade, Made
  <2>7. Buys!Buyable(pay, id, r)
    BY <2>3, <2>4, <2>5, <2>6 DEF Buys!Buyable, SettledHolds
  <2>8. new \in served' \ served
    BY <2>1, <2>2, <2>4
  <2>9. OnRecord' \in {OnRecord, OnRecord \cup {new}}
    BY <2>1 DEF OnRecord
  <2>10. Buys!Deliver
    BY <2>1, <2>2, <2>7, <2>8, <2>9 DEF Buys!Deliver
  <2> QED BY <2>10
<1>5. ASSUME NEW id \in Calls, Redeems(id) \/ Fails(id) \/ Broadcasts(id)
      PROVE  /\ UNCHANGED <<price, served, OnRecord>>
             /\ UNCHANGED moved \/ \E p : moved' = moved \cup {p}
  <2>1. UNCHANGED <<raised, served, recording, since>>
    BY <1>5 DEF Redeems, Fails, Broadcasts, Carries, Fixed
  <2>2. UNCHANGED <<price, served, OnRecord>>
    BY <2>1 DEF price, OnRecord
  <2>3. UNCHANGED moved \/ \E p : moved' = moved \cup {p}
    BY <1>5 DEF Redeems, Fails, Broadcasts
  <2> QED BY <2>2, <2>3
<1>6. ASSUME NEW id \in Calls, Kinds(id),
             ~Delivers(id) /\ ~Redeems(id) /\ ~Fails(id) /\ ~Broadcasts(id)
      PROVE  UNCHANGED <<price, moved, served, OnRecord>>
  BY <1>6 DEF Kinds, Pays, Copies, Passes, TurnsAway, Spoils, Returns, Answers, Breaks, Loses,
        Carries, Fixed, Quiet, price, OnRecord
<1>7. CASE Redeploys
  <2>1. \A d \in served : d.era = 0
    BY <1>1, <1>7 DEF Redeploys, Restarts, SettledOnce, ServedHolds
  <2>2. OnRecord' \subseteq OnRecord
    BY <1>1, <1>7, <2>1 DEF Redeploys, Restarts, OnRecord, Shaped
  <2> QED BY <1>7, <2>2 DEF Redeploys, Buys!Restart
<1>8. CASE Untouched
  BY <1>2, <1>8 DEF Untouched, price, OnRecord
<1> QED BY <1>1, <1>2, <1>3, <1>4, <1>5, <1>6, <1>7, <1>8, StepKinds, AsksUntouched

LEMMA Invariance == Spec => []Inv
<1>1. Init => Inv
  BY InitInv
<1>2. Inv /\ [Next]_vars => Inv'
  <2> SUFFICES ASSUME Inv, [Next]_vars PROVE Inv'
    OBVIOUS
  <2>1. Shaped' /\ CredsMade' /\ Admitted' /\ SettledOnce'
    BY StepGrows, CredsKept, AdmittedKept, SettledOnceKept DEF Inv
  <2>2. UsedBy' /\ MovedFor' /\ OffersGenuine' /\ RefusedForCause'
    BY UsedByKept, MovedForKept, OffersKept, RefusedKept DEF Inv
  <2> QED BY <2>1, <2>2 DEF Inv
<1> QED BY <1>1, <1>2, PTL DEF Spec

\* Whatever the requests, the routes and their gates: every run of clients and server
\* is a run of Purchase.  Money moves before anything is delivered for it, a payment whose
\* delivery is on record buys nothing more outside the metered routes whichever requests
\* carry it, and a route behind the layer or the extractor delivers for its price of the
\* day.  With a replay store that lasts every delivery is on record; with one in memory
\* those for a tempo charge are until the server starts again; without a store none is.
THEOREM KeepsPurchase == Spec => ImplementsPurchase
<1>1. Init => Buys!Start
  BY DEF Init, Buys!Start, OnRecord
<1>2. Inv /\ [Next]_vars => [Buys!Move \/ Buys!Deliver \/ Buys!Restart]_(Buys!purchaseVars)
  BY StepBuys
<1> QED BY <1>1, <1>2, Invariance, PTL DEF Spec, ImplementsPurchase, Buys!Promise

\* No payment is lost by the client's or the server's own doing: one that moved money
\* without a delivery has a cause outside of both, or opened a channel.
THEOREM UnservedHasCause == Spec => []UnservedForCause
<1>1. Inv => UnservedForCause
  BY DEF Inv, MovedFor, Accounted, Pending, UnservedForCause, Ended
<1> QED BY <1>1, Invariance, PTL

\* The server turns no credential away that the client made for its own challenge,
\* unless it came too late, was garbled by a header, or its payment is carried twice.
THEOREM RefusalsHaveCause == Spec => []RefusedForCause
<1>1. Inv => RefusedForCause
  BY DEF Inv
<1> QED BY <1>1, Invariance, PTL
================================================================================
