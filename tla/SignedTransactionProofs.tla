----------------------- MODULE SignedTransactionProofs -----------------------
EXTENDS SignedTransaction, FiniteSetTheorems, SequenceTheorems, TLAPS

-----------------------------------------------------------------------------
(* Finding a position.                                                     *)

LEMMA LeastOf ==
  ASSUME NEW S \in SUBSET Nat, S # {}
  PROVE  Min(S) \in S /\ \A y \in S : Min(S) <= y
<1> DEFINE R == OpToRel(<, Nat)
<1>1. /\ IsWellFoundedOn(R, Nat)
      /\ \A x, y \in Nat : y < x => <<y, x>> \in R
  BY NatLessThanWellFounded DEF OpToRel
<1> HIDE DEF R
<1>2. PICK x \in S : \A y \in S : ~ (<<y, x>> \in R)
  BY <1>1, WFMin
<1>3. ASSUME NEW y \in S PROVE x <= y
  <2>1. x \in Nat /\ y \in Nat /\ ~(y < x)
    BY <1>1, <1>2
  <2> QED BY <2>1
<1> QED BY <1>3 DEF Min

\* What is found is free, and preferred if it can be.
LEMMA FoundIs ==
  ASSUME NEW free \in SUBSET (Nat \ {0}), NEW preferred
  PROVE  /\ free = {} => Found(free, preferred) = 0
         /\ free # {} => Found(free, preferred) \in free
         /\ free \cap preferred # {} => Found(free, preferred) \in preferred
<1> DEFINE choice == IF free \cap preferred = {} THEN free ELSE free \cap preferred
<1>1. choice \in SUBSET Nat /\ choice \subseteq free /\ (free # {} => choice # {})
      /\ (free \cap preferred # {} => choice \subseteq preferred)
  OBVIOUS
<1>2. Found(free, preferred) = IF choice = {} THEN 0 ELSE Min(choice)
  BY DEF Found, First
<1> HIDE DEF choice
<1>3. choice # {} => Min(choice) \in choice
  BY <1>1, LeastOf
<1> QED BY <1>1, <1>2, <1>3

-----------------------------------------------------------------------------
(* The turns.                                                              *)

Finite(transfers) == IsFiniteSet(DOMAIN transfers) /\ DOMAIN transfers \subseteq Nat

\* Turns are in a strict total order.
LEMMA TurnsAreOrdered ==
  ASSUME NEW transfers, Finite(transfers), NEW i \in DOMAIN transfers, NEW j \in DOMAIN transfers
  PROVE  /\ Earlier(transfers, i) \subseteq DOMAIN transfers
         /\ i \notin Earlier(transfers, i)
         /\ i # j => i \in Earlier(transfers, j) \/ j \in Earlier(transfers, i)
         /\ j \in Earlier(transfers, i) => Earlier(transfers, j) \subseteq Earlier(transfers, i)
BY DEF Earlier, Finite

\* An earlier turn has fewer before it.
LEMMA TurnsAreRanked ==
  ASSUME NEW transfers, Finite(transfers), NEW i \in DOMAIN transfers
  PROVE  /\ IsFiniteSet(Earlier(transfers, i)) /\ Cardinality(Earlier(transfers, i)) \in Nat
         /\ Cardinality(Earlier(transfers, i)) <= Cardinality(DOMAIN transfers)
         /\ \A j \in Earlier(transfers, i) :
              Cardinality(Earlier(transfers, j)) < Cardinality(Earlier(transfers, i))
<1>1. /\ IsFiniteSet(Earlier(transfers, i)) /\ Cardinality(Earlier(transfers, i)) \in Nat
      /\ Cardinality(Earlier(transfers, i)) <= Cardinality(DOMAIN transfers)
  BY TurnsAreOrdered, FS_Subset, FS_CardinalityType DEF Finite
<1>2. ASSUME NEW j \in Earlier(transfers, i)
      PROVE  Cardinality(Earlier(transfers, j)) < Cardinality(Earlier(transfers, i))
  <2>1. /\ j \in DOMAIN transfers /\ Earlier(transfers, j) \subseteq Earlier(transfers, i)
        /\ j \notin Earlier(transfers, j)
    BY TurnsAreOrdered
  <2>2. /\ Cardinality(Earlier(transfers, j)) <= Cardinality(Earlier(transfers, i))
        /\ Cardinality(Earlier(transfers, j)) # Cardinality(Earlier(transfers, i))
    BY <1>1, <2>1, FS_Subset
  <2>3. Cardinality(Earlier(transfers, j)) \in Nat
    BY <1>1, <2>1, FS_Subset, FS_CardinalityType
  <2> QED BY <1>1, <2>2, <2>3
<1> QED BY <1>1, <1>2

\* The transfers take what they find in their turns: the recursion is well founded.
LEMMA TakenInTurn ==
  ASSUME NEW transfers, Finite(transfers), NEW fits, NEW preferred,
         NEW taken, taken = Taken(transfers, fits, preferred)
  PROVE  /\ DOMAIN taken = DOMAIN transfers
         /\ \A i \in DOMAIN transfers :
              taken[i] = Found(fits[i] \ {taken[j] : j \in Earlier(transfers, i)}, preferred)
<1> DEFINE D == DOMAIN transfers
           Rank(i) == Cardinality(Earlier(transfers, i))
           Turn(f, i) == Found(fits[i] \ {f[j] : j \in Earlier(transfers, i)}, preferred)
           Solved == {n \in Nat : \E f : /\ f = [i \in D |-> f[i]]
                                        /\ \A i \in D : Rank(i) < n => f[i] = Turn(f, i)}
<1>1. \A i \in D : Rank(i) \in Nat /\ Rank(i) <= Cardinality(D)
                   /\ \A j \in Earlier(transfers, i) : j \in D /\ Rank(j) < Rank(i)
  BY TurnsAreRanked, TurnsAreOrdered
<1>2. 0 \in Solved
  <2>1. [i \in D |-> 0] = [i \in D |-> [k \in D |-> 0][i]] /\ \A i \in D : ~(Rank(i) < 0)
    BY <1>1
  <2> QED BY <2>1
<1>3. ASSUME NEW m \in Solved PROVE m + 1 \in Solved
  <2>1. PICK f : f = [i \in D |-> f[i]] /\ \A i \in D : Rank(i) < m => f[i] = Turn(f, i)
    OBVIOUS
  <2> DEFINE g == [i \in D |-> IF Rank(i) < m THEN f[i] ELSE Turn(f, i)]
  <2>2. ASSUME NEW i \in D, Rank(i) < m + 1 PROVE g[i] = Turn(g, i)
    <3>1. \A j \in Earlier(transfers, i) : g[j] = f[j]
      BY <1>1, <2>2
    <3>2. Turn(g, i) = Turn(f, i)
      <4>1. {g[j] : j \in Earlier(transfers, i)} = {f[j] : j \in Earlier(transfers, i)}
        BY <3>1
      <4> QED BY <4>1
    <3> QED BY <2>1, <3>2
  <2>3. g = [i \in D |-> g[i]]
    OBVIOUS
  <2> HIDE DEF g, Rank, Turn
  <2> QED BY <2>2, <2>3
<1> HIDE DEF Rank, Turn, Solved
<1>4. Solved = Nat
  <2> SUFFICES ASSUME Nat \ Solved # {} PROVE FALSE
    BY DEF Solved
  <2>1. PICK m \in Nat \ Solved : \A k \in Nat \ Solved : m <= k
    BY LeastOf
  <2>2. m - 1 \in Nat /\ m - 1 \in Solved
    BY <1>2, <2>1
  <2> QED BY <1>3, <2>1, <2>2
<1>5. Cardinality(D) \in Nat
  BY FS_CardinalityType DEF Finite
<1>6. PICK f : f = [i \in D |-> f[i]] /\ \A i \in D : f[i] = Turn(f, i)
  BY <1>1, <1>4, <1>5, Cardinality(D) + 1 \in Nat DEF Solved
<1>7. f = [i \in D |-> Turn(f, i)]
  BY <1>6
<1> DEFINE Right(h) == h = [i \in D |-> Turn(h, i)]
<1>8. Right(taken)
  <2>1. taken = CHOOSE h : Right(h)
    BY Zenon DEF Taken, Turn
  <2>2. Right(f)
    BY <1>7
  <2> HIDE DEF Right
  <2> QED BY <2>1, <2>2
<1> QED BY <1>8 DEF Turn
\* What a transfer takes fits it and is its own; one that finds nothing finds that
\* the others took all that fits.
LEMMA TakenFits ==
  ASSUME NEW transfers, Finite(transfers), NEW P \in SUBSET (Nat \ {0}),
         NEW fits \in [DOMAIN transfers -> SUBSET P], NEW preferred,
         NEW taken, taken = Taken(transfers, fits, preferred), NEW i \in DOMAIN transfers
  PROVE  LET before == {taken[j] : j \in Earlier(transfers, i)}
         IN /\ taken[i] # 0 => taken[i] \in fits[i] /\ taken[i] \notin before
            /\ taken[i] = 0 => fits[i] \subseteq before
            /\ (fits[i] \ before) \cap preferred # {} => taken[i] \in preferred
<1> DEFINE free == fits[i] \ {taken[j] : j \in Earlier(transfers, i)}
<1>1. taken[i] = Found(free, preferred)
  BY TakenInTurn
<1>2. free \in SUBSET (Nat \ {0})
  OBVIOUS
<1>3. /\ free = {} => taken[i] = 0
      /\ free # {} => taken[i] \in free
      /\ free \cap preferred # {} => taken[i] \in preferred
  <2> HIDE DEF free
  <2> QED BY <1>1, <1>2, FoundIs
<1> QED BY <1>2, <1>3

\* One position each, of those that fit.
Assigned(g, transfers, fits) ==
  /\ \A i \in DOMAIN transfers : g[i] \in fits[i]
  /\ \A i, j \in DOMAIN transfers : g[i] = g[j] => i = j

\* Nothing fits two transfers, or all that fits the earlier fits the later.
Laminar(transfers, fits) ==
  \A i \in DOMAIN transfers : \A j \in Earlier(transfers, i) :
    fits[i] \cap fits[j] # {} => fits[j] \subseteq fits[i]

\* When all find something, they have shared it out.
LEMMA TakenIsAssigned ==
  ASSUME NEW transfers, Finite(transfers), NEW P \in SUBSET (Nat \ {0}),
         NEW fits \in [DOMAIN transfers -> SUBSET P], NEW preferred,
         NEW taken, taken = Taken(transfers, fits, preferred), AllFound(taken)
  PROVE  Assigned(taken, transfers, fits)
<1>1. \A i \in DOMAIN transfers : taken[i] # 0
  BY TakenInTurn DEF AllFound
<1>2. \A i \in DOMAIN transfers :
        taken[i] \in fits[i] /\ taken[i] \notin {taken[j] : j \in Earlier(transfers, i)}
  BY <1>1, TakenFits
<1>3. ASSUME NEW i \in DOMAIN transfers, NEW j \in DOMAIN transfers, taken[i] = taken[j]
      PROVE  i = j
  BY <1>2, <1>3, TurnsAreOrdered
<1> QED BY <1>2, <1>3 DEF Assigned

\* When there is a way to share, all find something.
LEMMA AssignableIsTaken ==
  ASSUME NEW transfers, Finite(transfers), NEW P \in SUBSET (Nat \ {0}),
         NEW fits \in [DOMAIN transfers -> SUBSET P], NEW preferred,
         NEW taken, taken = Taken(transfers, fits, preferred),
         Laminar(transfers, fits), NEW g, Assigned(g, transfers, fits)
  PROVE  AllFound(taken)
<1> SUFFICES ASSUME NEW i \in DOMAIN transfers, taken[i] = 0 PROVE FALSE
  BY TakenInTurn DEF AllFound
<1> DEFINE E == {j \in Earlier(transfers, i) : taken[j] \in fits[i]}
           h == [x \in fits[i] |-> CHOOSE j \in E : taken[j] = x]
           G == [j \in E \cup {i} |-> h[g[j]]]
<1>1. E \subseteq DOMAIN transfers /\ i \notin E /\ E \subseteq Earlier(transfers, i)
  BY TurnsAreOrdered
<1>2. \A x \in fits[i] : h[x] \in E /\ taken[h[x]] = x
  <2>1. \A x \in fits[i] : \E j \in E : taken[j] = x
    BY TakenFits
  <2> QED BY <2>1
<1>3. \A j \in E \cup {i} : g[j] \in fits[i]
  <2>1. g[i] \in fits[i]
    BY DEF Assigned
  <2>2. ASSUME NEW j \in E PROVE g[j] \in fits[i]
    <3>1. j \in DOMAIN transfers /\ g[j] \in fits[j] /\ taken[j] # 0
      BY <1>1 DEF Assigned
    <3>2. taken[j] \in fits[j] /\ taken[j] \in fits[i]
      BY <3>1, TakenFits
    <3> QED BY <1>1, <3>1, <3>2 DEF Laminar
  <2> QED BY <2>1, <2>2
<1>4. /\ IsFiniteSet(E) /\ Cardinality(E) \in Nat /\ IsFiniteSet(E \cup {i})
      /\ Cardinality(E \cup {i}) = Cardinality(E) + 1
  BY <1>1, FS_Subset, FS_CardinalityType, FS_AddElement DEF Finite
<1> HIDE DEF E, h
<1>5. G \in [E \cup {i} -> E]
  BY <1>2, <1>3
<1>6. \A j, k \in E \cup {i} : G[j] = G[k] => j = k
  <2> SUFFICES ASSUME NEW j \in E \cup {i}, NEW k \in E \cup {i}, h[g[j]] = h[g[k]] PROVE j = k
    OBVIOUS
  <2>1. g[j] = g[k]
    BY <1>2, <1>3
  <2> QED BY <1>1, <2>1 DEF Assigned
<1> HIDE DEF G
<1> QED BY <1>4, <1>5, <1>6, FS_PigeonHole
-----------------------------------------------------------------------------
(* The transfers of a request.                                             *)

Split == [amount: Nat, to: STRING, memo: Seq(STRING)]
Parts(r) == IF r.splits = <<>> THEN <<>> ELSE r.splits[1]
Remainder(r) == IF r.splits = <<>> THEN r.amount ELSE Rest(r.amount, Parts(r))

LEMMA RequestShape ==
  ASSUME NEW r \in Requests
  PROVE  /\ DOMAIN r = {"amount", "to", "memo", "sponsored", "splits"}
         /\ r.amount \in Nat \ {0} /\ r.sponsored \in BOOLEAN
         /\ Parts(r) \in Seq(Split)
         /\ r.splits # <<>> => Parts(r) \in ToSet(r.splits)
<1>1. r \in [amount: Nat \ {0}, to: STRING, memo: Seq(STRING), sponsored: BOOLEAN,
             splits: Seq(Seq(Split))]
  BY RequestAssumption DEF Split
<1>2. r.splits \in Seq(Seq(Split))
  BY <1>1
<1>3. CASE r.splits = <<>>
  BY <1>1, <1>3, EmptySeq DEF Parts
<1>4. CASE r.splits # <<>>
  <2>1. 1 \in DOMAIN r.splits /\ 1 \in 1..Len(r.splits)
    BY <1>2, <1>4, EmptySeq, LenProperties
  <2>2. r.splits[1] \in Seq(Split)
    BY <1>2, <2>1, ElementOfSeq
  <2> QED BY <1>1, <1>4, <2>1, <2>2 DEF Parts, ToSet
<1> QED BY <1>3, <1>4

\* With any memo for the primary transfer.
LEMMA TransferList ==
  ASSUME NEW r \in Requests, Divisible(r), NEW memo, NEW n, n = Len(Parts(r)) + 1,
         NEW t, t = Transfers([r EXCEPT !.memo = memo])
  PROVE  /\ n \in 1 .. MaxSplits + 1 /\ DOMAIN t = 1..n /\ Len(t) = n
         /\ t = [i \in 1..n |-> t[i]]
         /\ t[1] = [amount |-> Remainder(r), to |-> r.to, memo |-> memo]
         /\ \A i \in 2..n : t[i] = Parts(r)[i - 1]
         /\ \A i \in 1..n : t[i].amount > 0
<1> DEFINE p == [amount |-> Remainder(r), to |-> r.to, memo |-> memo]
           S == Split \cup {p}
<1>1. Parts(r) \in Seq(Split) /\ Parts(r) \in Seq(S) /\ <<p>> \in Seq(S)
  BY RequestShape, SeqMonotonic
<1>2. t = <<p>> \o Parts(r)
  <2> DEFINE m == [r EXCEPT !.memo = memo]
  <2>1. m.memo = memo /\ m.amount = r.amount /\ m.to = r.to /\ m.splits = r.splits
    BY RequestShape
  <2> HIDE DEF m
  <2>2. p = Primary(m, Remainder(r))
    BY <2>1 DEF Primary
  <2>3. t = Transfers(m)
    BY DEF m
  <2> HIDE DEF p
  <2>4. CASE r.splits = <<>>
    <3>1. t = <<p>> /\ Parts(r) = <<>>
      BY <2>1, <2>2, <2>3, <2>4 DEF Transfers, Parts, Remainder
    <3> QED BY <1>1, <3>1, ConcatEmptySeq
  <2>5. CASE r.splits # <<>>
    BY <2>1, <2>2, <2>3, <2>5 DEF Transfers, Parts, Remainder
  <2> QED BY <2>4, <2>5
<1>3. Len(Parts(r)) \in 0..MaxSplits /\ DOMAIN Parts(r) = 1..Len(Parts(r))
  <2>1. CASE r.splits = <<>>
    BY <2>1, TransferAssumption DEF Parts
  <2>2. CASE r.splits # <<>>
    BY <1>1, <2>2, RequestShape, LenProperties DEF Divisible
  <2> QED BY <2>1, <2>2
<1> HIDE DEF p, S
<1>4. Len(<<p>>) = 1 /\ <<p>>[1] = p
  OBVIOUS
<1> DEFINE q == <<p>>
<1>5. /\ t \in Seq(S) /\ Len(t) = n /\ t[1] = p
      /\ \A i \in 2..n : t[i] = Parts(r)[i - 1]
  <2>1. q \in Seq(S) /\ Len(q) = 1 /\ q[1] = p
    BY <1>1, <1>4
  <2>2. t = q \o Parts(r)
    BY <1>2
  <2> HIDE DEF q
  <2>3. /\ q \o Parts(r) \in Seq(S) /\ Len(q \o Parts(r)) = Len(q) + Len(Parts(r))
        /\ \A i \in 1 .. Len(q) + Len(Parts(r)) :
             (q \o Parts(r))[i] = IF i <= Len(q) THEN q[i] ELSE Parts(r)[i - Len(q)]
    BY <1>1, <2>1, ConcatProperties, Zenon
  <2>4. Len(Parts(r)) \in Nat
    BY <1>3, TransferAssumption
  <2>5. t[1] = p
    BY <2>1, <2>2, <2>3, <2>4
  <2>6. ASSUME NEW i \in 2..n PROVE t[i] = Parts(r)[i - 1]
    <3>1. i \in 1 .. Len(q) + Len(Parts(r)) /\ ~(i <= Len(q)) /\ i - Len(q) = i - 1
      BY <2>1, <2>4
    <3> QED BY <2>2, <2>3, <3>1, Zenon
  <2>7. t \in Seq(S) /\ Len(t) = n
    <3>1. t \in Seq(S) /\ Len(t) = Len(q) + Len(Parts(r))
      BY <2>2, <2>3, Zenon
    <3> QED BY <2>1, <2>4, <3>1
  <2> QED BY <2>5, <2>6, <2>7
<1>6. DOMAIN t = 1..n /\ t = [i \in 1..n |-> t[i]] /\ n \in 1 .. MaxSplits + 1
  BY <1>3, <1>5, LenProperties, TransferAssumption
<1>8. p.amount > 0
  BY RequestShape DEF Divisible, p, Remainder
<1>9. \A i \in 2..n : Parts(r)[i - 1].amount > 0
  <2> SUFFICES ASSUME NEW i \in 2..n PROVE Parts(r)[i - 1].amount > 0
    OBVIOUS
  <2>1. r.splits # <<>> /\ i - 1 \in DOMAIN Parts(r)
    BY <1>3 DEF Parts
  <2> QED BY <2>1, RequestShape DEF Divisible, ToSet
<1>7. \A i \in 1..n : t[i].amount > 0
  BY <1>5, <1>6, <1>8, <1>9
<1> QED BY <1>5, <1>6, <1>7 DEF p
LEMMA TransfersAreFinite ==
  ASSUME NEW t, NEW n \in Nat, DOMAIN t = 1..n
  PROVE  Finite(t)
BY FS_Interval DEF Finite

-----------------------------------------------------------------------------
(* The matching of the logs.                                               *)

Positions(l) == IsFiniteSet(DOMAIN l) /\ DOMAIN l \subseteq Nat \ {0}

FittingLogs(l, t) ==
  [i \in DOMAIN t |-> {p \in DOMAIN l : Shows(l[p], t[i], {"payer"})}]

LEMMA LogsAreLaminar ==
  ASSUME NEW l, NEW t
  PROVE  Laminar(t, FittingLogs(l, t))
<1> SUFFICES ASSUME NEW i \in DOMAIN t, NEW j \in Earlier(t, i), NEW p \in DOMAIN l,
                    Shows(l[p], t[i], {"payer"}), Shows(l[p], t[j], {"payer"}),
                    NEW q \in DOMAIN l, Shows(l[q], t[j], {"payer"})
             PROVE  Shows(l[q], t[i], {"payer"})
  BY DEF Laminar, FittingLogs, Earlier
<1> QED BY DEF Shows, Earlier

LEMMA FittingLogsType ==
  ASSUME NEW l, NEW t
  PROVE  FittingLogs(l, t) \in [DOMAIN t -> SUBSET DOMAIN l]
BY DEF FittingLogs

LEMMA MatchIsExact ==
  ASSUME NEW l, Positions(l), NEW t, Finite(t), \A i \in DOMAIN t : t[i].amount > 0
  PROVE  LogsMatch(l, t, {"payer"}) <=> \E g : Assigned(g, t, FittingLogs(l, t))
<1> DEFINE taken == LogsTaken(l, t, {"payer"})
<1>1. taken = Taken(t, FittingLogs(l, t), Preferred(l))
  BY DEF LogsTaken, FittingLogs
<1>2. LogsMatch(l, t, {"payer"}) <=> AllFound(taken)
  BY DEF LogsMatch, ToSet
<1> HIDE DEF taken
<1>3. DOMAIN l \in SUBSET (Nat \ {0})
  BY DEF Positions
<1>4. AllFound(taken) => Assigned(taken, t, FittingLogs(l, t))
  BY <1>1, <1>3, FittingLogsType, TakenIsAssigned
<1>5. ASSUME NEW g, Assigned(g, t, FittingLogs(l, t)) PROVE AllFound(taken)
  BY <1>1, <1>3, <1>5, FittingLogsType, LogsAreLaminar, AssignableIsTaken
<1> QED BY <1>2, <1>4, <1>5
-----------------------------------------------------------------------------
(* What the chain logs.                                                    *)

\* What a call logs at twice its position.
MainEvent(call, payer) == Event(call, payer, TRUE)

Listed(c) == Len(c) \in Nat /\ DOMAIN c = 1..Len(c)

\* A call's log is at twice its position; what else is logged has no memo.
LEMMA LogsOfCalls ==
  ASSUME NEW c, Listed(c), NEW payer, NEW both, NEW l, l = Logs(c, payer, both)
  PROVE  /\ Positions(l)
         /\ \A k \in DOMAIN c : c[k].op \in TransferOps =>
              2 * k \in DOMAIN l /\ l[2 * k] = MainEvent(c[k], payer)
         /\ \A p \in DOMAIN l : l[p].memo # None =>
              \E k \in DOMAIN c : p = 2 * k /\ c[k].op = "transferWithMemo"
<1> DEFINE logging == {k \in DOMAIN c : c[k].op \in TransferOps \cup {"swap"}}
           twice == {k \in logging : both /\ c[k].op = "transferWithMemo"}
           D == {2 * k : k \in logging} \cup {2 * k - 1 : k \in twice}
<1>1. l = [p \in D |-> Event(c[(p + 1) \div 2], payer, p % 2 = 0)]
  BY DEF Logs
<1>2. logging \subseteq 1..Len(c) /\ twice \subseteq 1..Len(c) /\ Len(c) \in Nat
  BY DEF Listed
<1>3. \A k \in Nat \ {0} : /\ (2 * k + 1) \div 2 = k /\ (2 * k) % 2 = 0
                           /\ (2 * k - 1 + 1) \div 2 = k /\ (2 * k - 1) % 2 # 0
  OBVIOUS
<1>4. Positions(l)
  <2>1. D \subseteq 1 .. 2 * Len(c)
    BY <1>2
  <2>2. IsFiniteSet(1 .. 2 * Len(c))
    BY <1>2, FS_Interval
  <2> HIDE DEF D
  <2>3. IsFiniteSet(D) /\ D \subseteq Nat \ {0}
    <3>1. D \in SUBSET (1 .. 2 * Len(c))
      BY <2>1
    <3>2. 1 .. 2 * Len(c) \subseteq Nat \ {0}
      BY <1>2
    <3>3. IsFiniteSet(D)
      BY <2>2, <3>1, FS_Subset
    <3> QED BY <2>1, <3>2, <3>3
  <2> QED BY <1>1, <2>3 DEF Positions
<1>5. ASSUME NEW k \in DOMAIN c, c[k].op \in TransferOps
      PROVE  2 * k \in DOMAIN l /\ l[2 * k] = MainEvent(c[k], payer)
  <2>1. 2 * k \in D /\ k \in Nat \ {0}
    BY <1>2, <1>5
  <2> HIDE DEF D
  <2> QED BY <1>1, <1>3, <2>1 DEF MainEvent
<1>6. ASSUME NEW p \in DOMAIN l, l[p].memo # None
      PROVE  \E k \in DOMAIN c : p = 2 * k /\ c[k].op = "transferWithMemo"
  <2>1. CASE \E k \in logging : p = 2 * k
    <3>1. PICK k \in logging : p = 2 * k
      BY <2>1
    <3>2. l[p] = MainEvent(c[k], payer)
      <4>1. p \in D /\ (p + 1) \div 2 = k /\ p % 2 = 0
        BY <1>2, <1>3, <3>1
      <4> HIDE DEF D
      <4> QED BY <1>1, <4>1 DEF MainEvent
    <3>3. c[k].op = "transferWithMemo"
      BY <1>6, <3>2 DEF MainEvent, Event
    <3> QED BY <3>1, <3>3
  <2>2. CASE \E k \in twice : p = 2 * k - 1
    <3>1. PICK k \in twice : p = 2 * k - 1
      BY <2>2
    <3>2. l[p] = Event(c[k], payer, FALSE)
      <4>1. p \in D /\ (p + 1) \div 2 = k /\ p % 2 # 0
        BY <1>2, <1>3, <3>1
      <4> HIDE DEF D
      <4> QED BY <1>1, <4>1
    <3>3. l[p].memo = None
      BY <3>2 DEF Event
    <3> QED BY <1>6, <3>3
  <2>3. p \in D
    BY <1>1
  <2> QED BY <2>1, <2>2, <2>3
<1> QED BY <1>4, <1>5, <1>6
-----------------------------------------------------------------------------
(* The checks before the broadcast.                                        *)

FittingCalls(c, t) ==
  [i \in DOMAIN t |-> {k \in Offset(c) + 1 .. Len(c) : Makes(c[k], t[i])}]

CallPositions(c) == Offset(c) + 1 .. Len(c)

LEMMA CallsFit ==
  ASSUME NEW c, Listed(c), NEW t
  PROVE  /\ CallPositions(c) \subseteq DOMAIN c /\ CallPositions(c) \in SUBSET (Nat \ {0})
         /\ FittingCalls(c, t) \in [DOMAIN t -> SUBSET CallPositions(c)]
         /\ CallsTaken(c, t) = Taken(t, FittingCalls(c, t), {})
<1>1. Offset(c) \in {0, 2}
  BY DEF Offset
<1>2. CallPositions(c) \subseteq DOMAIN c /\ CallPositions(c) \in SUBSET (Nat \ {0})
  BY <1>1 DEF CallPositions, Listed
<1>3. FittingCalls(c, t) \in [DOMAIN t -> SUBSET CallPositions(c)]
  BY DEF FittingCalls, CallPositions
<1>4. CallsTaken(c, t) = Taken(t, FittingCalls(c, t), {})
  BY DEF CallsTaken, FittingCalls
<1> QED BY <1>2, <1>3, <1>4

LEMMA CallsAreLaminar ==
  ASSUME NEW c, NEW t
  PROVE  Laminar(t, FittingCalls(c, t))
<1> SUFFICES ASSUME NEW i \in DOMAIN t, NEW j \in Earlier(t, i), NEW p,
                    Makes(c[p], t[i]), Makes(c[p], t[j]), NEW q, Makes(c[q], t[j])
             PROVE  Makes(c[q], t[i])
  BY DEF Laminar, FittingCalls, Earlier
<1> QED BY DEF Makes, Earlier

\* The log of a call that makes a transfer shows it.
LEMMA LogShows ==
  ASSUME NEW call, NEW t, call.op \in TransferOps, Makes(call, t)
  PROVE  Shows(MainEvent(call, "payer"), t, {"payer"})
BY DEF Makes, Shows, MainEvent, Event, TransferOps

\* Calls that are accepted leave logs that match.
LEMMA AcceptedCallsMatch ==
  ASSUME NEW c, Listed(c), NEW t, Finite(t), NEW sponsored, CallsAccepted(c, t, sponsored),
         NEW both
  PROVE  LogsMatch(Logs(c, "payer", both), t, {"payer"})
<1> DEFINE h == CallsTaken(c, t)
           l == Logs(c, "payer", both)
           g == [i \in DOMAIN t |-> 2 * h[i]]
<1>1. AllFound(h) /\ OnlyTransfers(c) /\ \A i \in DOMAIN t : t[i].amount > 0
  BY DEF CallsAccepted, ToSet
<1>2. h = Taken(t, FittingCalls(c, t), {}) /\ CallPositions(c) \in SUBSET (Nat \ {0})
      /\ FittingCalls(c, t) \in [DOMAIN t -> SUBSET CallPositions(c)]
      /\ CallPositions(c) \subseteq DOMAIN c
  BY CallsFit
<1> HIDE DEF h
<1>3. Assigned(h, t, FittingCalls(c, t))
  BY <1>1, <1>2, TakenIsAssigned
<1>4. \A i \in DOMAIN t : /\ h[i] \in CallPositions(c) /\ Makes(c[h[i]], t[i])
                          /\ c[h[i]].op \in TransferOps
  BY <1>1, <1>3 DEF Assigned, FittingCalls, CallPositions, OnlyTransfers
<1>5. Positions(l) /\ \A k \in DOMAIN c : c[k].op \in TransferOps =>
                        2 * k \in DOMAIN l /\ l[2 * k] = MainEvent(c[k], "payer")
  <2>1. l = Logs(c, "payer", both)
    OBVIOUS
  <2> HIDE DEF l
  <2> QED BY <2>1, LogsOfCalls
<1> HIDE DEF l
<1>6. ASSUME NEW i \in DOMAIN t PROVE g[i] \in DOMAIN l /\ Shows(l[g[i]], t[i], {"payer"})
  <2>1. h[i] \in DOMAIN c /\ g[i] = 2 * h[i]
    BY <1>2, <1>4
  <2> HIDE DEF g
  <2> QED BY <1>4, <1>5, <2>1, LogShows
<1>7. \A i, j \in DOMAIN t : g[i] = g[j] => i = j
  <2> SUFFICES ASSUME NEW i \in DOMAIN t, NEW j \in DOMAIN t, g[i] = g[j] PROVE i = j
    OBVIOUS
  <2>1. h[i] \in Nat /\ h[j] \in Nat /\ 2 * h[i] = 2 * h[j]
    BY <1>2, <1>4
  <2>2. h[i] = h[j]
    BY <2>1
  <2> QED BY <1>3, <2>2 DEF Assigned
<1> HIDE DEF g
<1>8. Assigned(g, t, FittingLogs(l, t))
  BY <1>6, <1>7 DEF Assigned, FittingLogs
<1> QED BY <1>1, <1>5, <1>8, MatchIsExact DEF l
-----------------------------------------------------------------------------
(* The crate's client.                                                     *)

\* The memo that the client gives the primary transfer.
Mark(r) == IF r.memo = None THEN BoundMemo("here") ELSE r.memo

Marked(r) == Transfers([r EXCEPT !.memo = Mark(r)])

LEMMA UnmarkedTransfers ==
  ASSUME NEW r \in Requests
  PROVE  Transfers(r) = Transfers([r EXCEPT !.memo = r.memo])
<1>1. r = [r EXCEPT !.memo = r.memo]
  BY RequestShape, RequestAssumption
<1> QED BY <1>1

\* What the client transfers is what is asked for, with its mark.
LEMMA MarkedTransfers ==
  ASSUME NEW r \in Requests, Divisible(r), NEW n, n = Len(Parts(r)) + 1
  PROVE  /\ n \in 1 .. MaxSplits + 1
         /\ DOMAIN Marked(r) = 1..n /\ DOMAIN Transfers(r) = 1..n /\ Len(Transfers(r)) = n
         /\ Marked(r)[1].to = Transfers(r)[1].to /\ Marked(r)[1].amount = Transfers(r)[1].amount
         /\ Marked(r)[1].memo = Mark(r) /\ Transfers(r)[1].memo = r.memo
         /\ \A i \in 2..n : Marked(r)[i] = Transfers(r)[i]
         /\ \A i \in 1..n : Marked(r)[i].amount > 0 /\ Transfers(r)[i].amount > 0
<1> DEFINE t == Transfers([r EXCEPT !.memo = r.memo])
           u == Transfers([r EXCEPT !.memo = Mark(r)])
<1>1. t = Transfers([r EXCEPT !.memo = r.memo]) /\ u = Transfers([r EXCEPT !.memo = Mark(r)])
  OBVIOUS
<1>2. Transfers(r) = t /\ Marked(r) = u
  BY UnmarkedTransfers DEF Marked
<1> HIDE DEF t, u
<1>3. /\ n \in 1 .. MaxSplits + 1 /\ DOMAIN t = 1..n /\ Len(t) = n
      /\ t[1] = [amount |-> Remainder(r), to |-> r.to, memo |-> r.memo]
      /\ \A i \in 2..n : t[i] = Parts(r)[i - 1]
      /\ \A i \in 1..n : t[i].amount > 0
  BY <1>1, TransferList
<1>4. /\ DOMAIN u = 1..n
      /\ u[1] = [amount |-> Remainder(r), to |-> r.to, memo |-> Mark(r)]
      /\ \A i \in 2..n : u[i] = Parts(r)[i - 1]
      /\ \A i \in 1..n : u[i].amount > 0
  BY <1>1, TransferList
<1> QED BY <1>2, <1>3, <1>4
LEMMA FunctionIsSequence ==
  ASSUME NEW S, NEW n \in Nat, NEW f \in [1..n -> S]
  PROVE  f \in Seq(S) /\ Len(f) = n
BY SeqDef

\* A client that holds the currency makes its transfers and nothing else.
LEMMA ClientCallList ==
  ASSUME NEW r \in Requests, Divisible(r), NEW w \in Wallets, NEW n, n = Len(Parts(r)) + 1,
         NEW c, c = ClientCalls(r, "here", w)
  PROVE  /\ Listed(c)
         /\ w.balance >= r.amount =>
              Len(c) = n /\ \A i \in 1..n : c[i] = TransferCall(Marked(r)[i])
<1> DEFINE f == [i \in 1..n |-> TransferCall(Marked(r)[i])]
           s == Swap(r, w)
           S == {f[i] : i \in 1..n} \cup {SwapCall(r.amount - w.balance)}
<1>1. n \in Nat /\ DOMAIN Marked(r) = 1..n
  BY MarkedTransfers, TransferAssumption
<1>2. c = s \o f
  <2>1. CASE r.memo = None
    BY <1>1, <2>1 DEF ClientCalls, Marked, Mark
  <2>2. CASE r.memo # None
    BY <1>1, <2>2, UnmarkedTransfers DEF ClientCalls, Marked, Mark
  <2> QED BY <2>1, <2>2
<1>3. f \in Seq(S) /\ Len(f) = n
  BY <1>1, FunctionIsSequence, f \in [1..n -> S]
<1>4. s \in Seq(S) /\ (s = <<>> \/ Len(s) = 1)
  <2>1. SwapCall(r.amount - w.balance) \in S
    OBVIOUS
  <2> HIDE DEF S
  <2> QED BY <2>1 DEF Swap
<1>5. w.balance >= r.amount => s = <<>>
  <2>1. w.balance \in Nat /\ r.amount \in Nat
    BY WalletAssumption, RequestShape
  <2> QED BY <2>1 DEF Swap
<1> HIDE DEF f, s, S
<1>6. Listed(c)
  <2>1. s \o f \in Seq(S)
    BY <1>3, <1>4, ConcatProperties
  <2> QED BY <1>2, <2>1, LenProperties DEF Listed
<1>7. w.balance >= r.amount => c = f
  BY <1>2, <1>3, <1>5, ConcatEmptySeq
<1> QED BY <1>3, <1>6, <1>7 DEF f
LEMMA TransferCallIs ==
  ASSUME NEW t
  PROVE  /\ TransferCall(t).op \in TransferOps
         /\ TransferCall(t).op = "transferWithMemo" <=> t.memo # None
         /\ TransferCall(t).on = "currency" /\ TransferCall(t).to = t.to
         /\ TransferCall(t).amount = t.amount /\ TransferCall(t).memo = t.memo
BY DEF TransferCall, TransferOps

\* Its calls pass the checks before the broadcast.
LEMMA ClientCallsAccepted ==
  ASSUME NEW r \in Requests, Divisible(r), NEW w \in Wallets, w.balance >= r.amount,
         NEW c, c = ClientCalls(r, "here", w)
  PROVE  CallsAccepted(c, Transfers(r), r.sponsored)
<1> DEFINE t == Transfers(r)
           n == Len(Parts(r)) + 1
           g == [i \in 1..n |-> i]
<1>1. /\ n \in 1 .. MaxSplits + 1 /\ DOMAIN t = 1..n /\ Len(t) = n
      /\ Marked(r)[1].to = t[1].to /\ Marked(r)[1].amount = t[1].amount
      /\ Marked(r)[1].memo = Mark(r) /\ t[1].memo = r.memo
      /\ \A i \in 2..n : Marked(r)[i] = t[i]
      /\ \A i \in 1..n : t[i].amount > 0
  BY MarkedTransfers
<1>2. Listed(c) /\ Len(c) = n /\ \A i \in 1..n : c[i] = TransferCall(Marked(r)[i])
  BY ClientCallList
<1> HIDE DEF t, n
<1>3. n \in Nat /\ n >= 1 /\ n <= MaxSponsored
  BY <1>1, TransferAssumption
<1>4. \A i \in 1..n : c[i].op \in TransferOps
  BY <1>2, TransferCallIs
<1>5. Offset(c) = 0
  BY <1>2, <1>3, <1>4 DEF Offset, TransferOps
<1>6. OnlyTransfers(c)
  BY <1>2, <1>3, <1>4, <1>5 DEF OnlyTransfers
<1>7. Sponsorable(c) /\ Len(c) - Offset(c) = Len(t)
  BY <1>1, <1>2, <1>3, <1>5, <1>6 DEF Sponsorable
<1>8. ASSUME NEW i \in 1..n PROVE Makes(c[i], t[i])
  <2>1. CASE i = 1
    BY <1>1, <1>2, <2>1, TransferCallIs DEF Makes, Mark
  <2>2. CASE i \in 2..n
    BY <1>1, <1>2, <2>2, TransferCallIs DEF Makes
  <2> QED BY <1>3, <2>1, <2>2
<1>9. Assigned(g, t, FittingCalls(c, t))
  <2>1. \A i \in 1..n : i \in Offset(c) + 1 .. Len(c)
    BY <1>2, <1>3, <1>5
  <2> QED BY <1>1, <1>8, <2>1 DEF Assigned, FittingCalls
<1> HIDE DEF g
<1>10. Finite(t)
  BY <1>1, <1>3, TransfersAreFinite
<1>11. AllFound(CallsTaken(c, t))
  BY <1>2, <1>9, <1>10, CallsFit, CallsAreLaminar, AssignableIsTaken
<1> QED BY <1>1, <1>6, <1>7, <1>11 DEF CallsAccepted, ToSet, t
\* An injection of a finite set into itself reaches all of it.
LEMMA InjectionReachesAll ==
  ASSUME NEW K, IsFiniteSet(K), NEW h \in [K -> K],
         \A i, j \in K : h[i] = h[j] => i = j, NEW k \in K
  PROVE  \E j \in K : h[j] = k
<1>1. h \in Injection(K, K)
  BY DEF Injection, IsInjective
<1>2. h \in Surjection(K, K)
  BY <1>1, FS_Injection
<1> QED BY <1>2 DEF Surjection

\* When the request names no memo, a log with the challenge's is matched: the transfers
\* with a memo take as many logs with one, and what is left for the primary is its own.
LEMMA ClientCallsAreBound ==
  ASSUME NEW r \in Requests, Divisible(r), r.memo = None, NEW w \in Wallets,
         w.balance >= r.amount, NEW both,
         NEW l, l = Logs(ClientCalls(r, "here", w), "payer", both)
  PROVE  BoundBy(l, Transfers(r), {"payer"}, "here")
<1> DEFINE t == Transfers(r)
           u == Marked(r)
           c == ClientCalls(r, "here", w)
           n == Len(Parts(r)) + 1
           m == BoundMemo("here")
           fits == FittingLogs(l, t)
           taken == LogsTaken(l, t, {"payer"})
           K == {i \in 2..n : t[i].memo # None}
<1>1. /\ n \in Nat /\ n >= 1 /\ DOMAIN t = 1..n
      /\ u[1].to = t[1].to /\ u[1].amount = t[1].amount /\ u[1].memo = m /\ t[1].memo = None
      /\ \A i \in 2..n : u[i] = t[i]
      /\ \A i \in 1..n : t[i].amount > 0
  BY MarkedTransfers, TransferAssumption DEF Mark
<1>2. Listed(c) /\ DOMAIN c = 1..n /\ \A i \in 1..n : c[i] = TransferCall(u[i])
  BY ClientCallList DEF Listed
<1>3. /\ Positions(l)
      /\ \A k \in DOMAIN c : c[k].op \in TransferOps =>
           2 * k \in DOMAIN l /\ l[2 * k] = MainEvent(c[k], "payer")
      /\ \A p \in DOMAIN l : l[p].memo # None =>
           \E k \in DOMAIN c : p = 2 * k /\ c[k].op = "transferWithMemo"
  BY <1>2, LogsOfCalls
<1>4. LogsMatch(l, t, {"payer"})
  <2>1. CallsAccepted(c, t, r.sponsored)
    BY ClientCallsAccepted
  <2>2. Finite(t)
    BY <1>1, TransfersAreFinite
  <2> HIDE DEF t, c
  <2> QED BY <1>2, <2>1, <2>2, AcceptedCallsMatch DEF c
<1>5. m # None
  BY DEF BoundMemo, None
<1> HIDE DEF t, u, c, n, m
<1>6. taken = Taken(t, fits, Preferred(l)) /\ AllFound(taken)
  BY <1>4 DEF LogsTaken, LogsMatch, FittingLogs
<1>7. /\ Finite(t) /\ DOMAIN l \in SUBSET (Nat \ {0})
      /\ fits \in [DOMAIN t -> SUBSET DOMAIN l]
  BY <1>1, <1>3, TransfersAreFinite, FittingLogsType DEF Positions
<1> HIDE DEF taken, fits
<1>8. Assigned(taken, t, fits) /\ DOMAIN taken = DOMAIN t
  BY <1>6, <1>7, TakenIsAssigned, TakenInTurn
<1>9. \A i \in 1..n : /\ taken[i] \in DOMAIN l /\ taken[i] # 0
                      /\ t[i].memo # None => l[taken[i]].memo = t[i].memo
  BY <1>1, <1>6, <1>8 DEF Assigned, fits, FittingLogs, Shows, AllFound
<1>10. SUFFICES l[taken[1]].memo = m \/ \E i \in 2..n : t[i].memo = m
  <2>1. ASSUME NEW i \in 1..n, l[taken[i]].memo = m
        PROVE  BoundBy(l, Transfers(r), {"payer"}, "here")
    BY <1>1, <1>8, <1>9, <2>1 DEF BoundBy, taken, t, m
  <2>2. 1 \in 1..n /\ \A i \in 2..n : i \in 1..n
    BY <1>1
  <2> QED BY <1>5, <1>9, <2>1, <2>2
<1> SUFFICES ASSUME \A i \in 2..n : t[i].memo # m PROVE l[taken[1]].memo = m
  OBVIOUS
<1>11. 2 \in DOMAIN l /\ l[2].memo = m /\ 2 \in fits[1]
  <2>1. c[1] = TransferCall(u[1]) /\ 1 \in DOMAIN c /\ 1 \in DOMAIN t
    BY <1>1, <1>2
  <2>2. c[1].op = "transferWithMemo" /\ c[1].op \in TransferOps /\ c[1].memo = m
        /\ Makes(c[1], t[1])
    BY <1>1, <1>5, <2>1, TransferCallIs DEF Makes
  <2>3. 2 \in DOMAIN l /\ l[2] = MainEvent(c[1], "payer")
    BY <1>3, <2>1, <2>2, 2 * 1 = 2
  <2>4. Shows(l[2], t[1], {"payer"})
    BY <2>2, <2>3, LogShows
  <2>5. l[2].memo = m
    BY <2>2, <2>3 DEF MainEvent, Event
  <2> QED BY <2>1, <2>3, <2>4, <2>5 DEF fits, FittingLogs
<1>12. Earlier(t, 1) = K
  BY <1>1 DEF Earlier
<1>13. /\ taken[1] \notin {taken[j] : j \in K}
       /\ taken[1] \in Preferred(l)
  <2>1. \A j \in K : taken[j] # 2
    BY <1>9, <1>11
  <2>2. 2 \in (fits[1] \ {taken[j] : j \in K}) \cap Preferred(l)
    BY <1>5, <1>11, <2>1 DEF Preferred
  <2>3. 1 \in DOMAIN t /\ taken[1] # 0
    BY <1>1, <1>9
  <2> DEFINE before == {taken[j] : j \in Earlier(t, 1)}
             chosen == Preferred(l)
  <2>4. /\ taken[1] # 0 => taken[1] \notin before
        /\ (fits[1] \ before) \cap chosen # {} => taken[1] \in chosen
    <3>1. taken = Taken(t, fits, chosen)
      BY <1>6
    <3> HIDE DEF chosen
    <3> QED BY <1>7, <2>3, <3>1, TakenFits
  <2> QED BY <1>12, <2>2, <2>3, <2>4
<1>14. \A p \in DOMAIN l : l[p].memo # None => p = 2 \/ \E k \in K : p = 2 * k
  <2> SUFFICES ASSUME NEW p \in DOMAIN l, l[p].memo # None PROVE p = 2 \/ \E k \in K : p = 2 * k
    OBVIOUS
  <2>1. PICK k \in DOMAIN c : p = 2 * k /\ c[k].op = "transferWithMemo"
    BY <1>3
  <2>2. u[k].memo # None
    BY <1>2, <2>1, TransferCallIs
  <2>3. k = 1 \/ k \in K
    BY <1>1, <1>2, <2>2
  <2> QED BY <2>1, <2>3
<1>15. SUFFICES ASSUME NEW k \in K, taken[1] = 2 * k PROVE FALSE
  BY <1>11, <1>13, <1>14 DEF Preferred
<1> DEFINE h == [j \in K |-> CHOOSE i \in K : taken[j] = 2 * i]
<1>16. \A j \in K : h[j] \in K /\ taken[j] = 2 * h[j]
  <2>1. \A j \in K : \E i \in K : taken[j] = 2 * i
    BY <1>9, <1>11, <1>14
  <2> QED BY <2>1
<1>17. h \in [K -> K] /\ K \subseteq DOMAIN t
  <2>1. K \subseteq DOMAIN t
    BY <1>1
  <2> HIDE DEF K
  <2> QED BY <1>16, <2>1
<1>18. IsFiniteSet(K)
  <2>1. IsFiniteSet(2..n) /\ K \in SUBSET (2..n)
    BY <1>1, FS_Interval
  <2> HIDE DEF K
  <2> QED BY <2>1, FS_Subset
<1> HIDE DEF h, K
<1>19. ASSUME NEW i \in K, NEW j \in K, h[i] = h[j] PROVE i = j
  BY <1>8, <1>16, <1>17, <1>19 DEF Assigned
<1>20. PICK j \in K : h[j] = k
  BY <1>15, <1>17, <1>18, <1>19, InjectionReachesAll
<1> QED BY <1>13, <1>15, <1>16, <1>20
-----------------------------------------------------------------------------
(* The transaction.                                                        *)

\* What the server has broadcast, it has checked.
BroadcastIsAccepted ==
  approved => Divisible(request) /\ CallsAccepted(calls, Transfers(request), request.sponsored)

\* A client's calls are those of its provider, and go through the server.
ClientSigned ==
  maker = "client" /\ Divisible(request) => calls = ClientCalls(request, "here", wallet)

\* What the chain has logged is what the calls do; the sender of a transaction that the
\* server has broadcast is known.
Logged ==
  stage = "mined" =>
    /\ \E both \in BOOLEAN, sender \in {"payer", "stranger"} :
         logs = Logs(calls, sender, both) /\ (approved => sender = "payer")
    /\ maker = "client" => approved

Inv ==
  /\ request \in Requests /\ wallet \in Wallets /\ Listed(calls)
  /\ stage = "offered" => maker = "none" /\ ~approved
  /\ stage = "signed" => maker # "none" /\ ~approved
  /\ BroadcastIsAccepted
  /\ ClientSigned
  /\ Logged
  /\ ClientTransactionSettles

LEMMA EmptyListed == Listed(<<>>)
BY DEF Listed

LEMMA InitInv == Init => Inv
<1> SUFFICES ASSUME Init PROVE Inv
  OBVIOUS
<1> QED BY EmptyListed
     DEF Init, Inv, BroadcastIsAccepted, ClientSigned, Logged, ClientTransactionSettles

LEMMA SignInv == ASSUME Inv, Sign PROVE Inv'
<1>1. CASE Divisible(request)
  <2>1. Listed(calls)'
    BY <1>1, ClientCallList DEF Sign, Inv
  <2> QED BY <1>1, <2>1
     DEF Sign, Inv, BroadcastIsAccepted, ClientSigned, Logged, ClientTransactionSettles
<1>2. CASE ~Divisible(request)
  BY <1>2 DEF Sign, Inv, BroadcastIsAccepted, ClientSigned, Logged, ClientTransactionSettles
<1> QED BY <1>1, <1>2

LEMMA SignOtherInv == ASSUME Inv, SignOther PROVE Inv'
<1>1. Listed(calls)'
  BY CallAssumption, LenProperties DEF SignOther, Listed
<1> QED BY <1>1
     DEF SignOther, Inv, BroadcastIsAccepted, ClientSigned, Logged, ClientTransactionSettles

\* The calls of a client that holds the currency are approved.
LEMMA ApproveInv == ASSUME Inv, Approve PROVE Inv'
<1>1. maker = "client" /\ Divisible(request) /\ wallet.balance >= request.amount =>
        CallsAccepted(calls, Transfers(request), request.sponsored)
  BY ClientCallsAccepted DEF Inv, ClientSigned
<1>2. CASE Divisible(request) /\ CallsAccepted(calls, Transfers(request), request.sponsored)
  BY <1>2
  DEF Approve, Inv, BroadcastIsAccepted, ClientSigned, Logged, ClientTransactionSettles
<1>3. CASE ~(Divisible(request) /\ CallsAccepted(calls, Transfers(request), request.sponsored))
  BY <1>1, <1>3
  DEF Approve, Inv, BroadcastIsAccepted, ClientSigned, Logged, ClientTransactionSettles
<1> QED BY <1>2, <1>3

LEMMA ExecuteInv == ASSUME Inv, Execute PROVE Inv'
<1>1. Logged'
  <2>1. PICK both \in BOOLEAN, sender \in IF approved THEN {"payer"} ELSE {"payer", "stranger"} :
          logs' = Logs(calls, sender, both)
    BY DEF Execute
  <2> QED BY <2>1 DEF Execute, Logged
<1> QED BY <1>1
     DEF Execute, Inv, BroadcastIsAccepted, ClientSigned, ClientTransactionSettles

\* The transfers of a request that is accepted can be matched.
LEMMA TransfersHold ==
  ASSUME NEW r \in Requests, Divisible(r)
  PROVE  Finite(Transfers(r)) /\ \A i \in DOMAIN Transfers(r) : Transfers(r)[i].amount > 0
BY MarkedTransfers, TransfersAreFinite, TransferAssumption

LEMMA MinedPays ==
  ASSUME Inv, stage = "mined", approved
  PROVE  LogsMatch(logs, Transfers(request), {"payer"})
<1>1. PICK both \in BOOLEAN : logs = Logs(calls, "payer", both)
  BY DEF Inv, Logged
<1> QED BY <1>1, AcceptedCallsMatch, TransfersHold DEF Inv, BroadcastIsAccepted

\* The logs of the calls of a client that holds the currency match and are bound.
LEMMA SettleInv == ASSUME Inv, Settle PROVE Inv'
<1>1. ASSUME maker = "client", Divisible(request), wallet.balance >= request.amount
      PROVE  Settles(logs, request, {"payer"}, "here")
  <2>1. stage = "mined" /\ approved
    BY <1>1 DEF Settle, Inv, Logged
  <2>2. LogsMatch(logs, Transfers(request), {"payer"})
    BY <2>1, MinedPays
  <2>3. PICK both \in BOOLEAN : logs = Logs(ClientCalls(request, "here", wallet), "payer", both)
    BY <1>1, <2>1 DEF Inv, Logged, ClientSigned
  <2>4. request.memo = None => BoundBy(logs, Transfers(request), {"payer"}, "here")
    BY <1>1, <2>3, ClientCallsAreBound DEF Inv
  <2> QED BY <2>2, <2>4 DEF Settles
<1> QED BY <1>1
     DEF Settle, Inv, BroadcastIsAccepted, ClientSigned, Logged, ClientTransactionSettles

LEMMA Invariance == Spec => []Inv
<1>1. Inv /\ [Next]_vars => Inv'
  <2> SUFFICES ASSUME Inv, [Next]_vars PROVE Inv'
    OBVIOUS
  <2>1. CASE UNCHANGED vars
    BY <2>1
    DEF vars, Inv, BroadcastIsAccepted, ClientSigned, Logged, ClientTransactionSettles
  <2> QED BY <2>1, SignInv, SignOtherInv, ApproveInv, ExecuteInv, SettleInv DEF Next
<1> QED BY <1>1, InitInv, PTL DEF Spec

-----------------------------------------------------------------------------
(* Theorems.                                                               *)

\* The greedy matching of the logs, memos first, finds what there is to find
\* (match_receipt_transfer_logs), whatever the splits and memos and whoever signed.
THEOREM MatchingFindsAll == Spec => []MatchingIsExact
<1>1. Inv => MatchingIsExact
  <2> SUFFICES ASSUME Inv, stage = "mined", Divisible(request)
               PROVE  LogsMatch(logs, Transfers(request), {"payer"})
                        <=> Assignable(Transfers(request))
    BY DEF MatchingIsExact
  <2> DEFINE t == Transfers(request)
  <2>1. Positions(logs)
    BY LogsOfCalls DEF Inv, Logged
  <2>2. LogsMatch(logs, t, {"payer"}) <=> \E g : Assigned(g, t, FittingLogs(logs, t))
    BY <2>1, TransfersHold, MatchIsExact DEF Inv
  <2> HIDE DEF t
  <2>3. ASSUME NEW g, Assigned(g, t, FittingLogs(logs, t)) PROVE Assignable(t)
    <3> DEFINE f == [i \in DOMAIN t |-> g[i]]
    <3>1. /\ f \in [DOMAIN t -> DOMAIN logs]
          /\ \A i, j \in DOMAIN f : f[i] = f[j] => i = j
          /\ \A i \in DOMAIN f : Shows(logs[f[i]], t[i], {"payer"})
      BY <2>3 DEF Assigned, FittingLogs
    <3> HIDE DEF f
    <3> QED BY <3>1 DEF Assignable
  <2>4. ASSUME Assignable(t) PROVE \E g : Assigned(g, t, FittingLogs(logs, t))
    BY <2>4 DEF Assignable, Assigned, FittingLogs
  <2> QED BY <2>2, <2>3, <2>4 DEF t
<1> QED BY <1>1, Invariance, PTL

\* What the server broadcasts pays: the logs of the calls it has accepted
\* (validate_transaction_transfers) match when they come back in the receipt.
THEOREM AcceptedPays == Spec => []ApprovedCallsPay
<1>1. Inv => ApprovedCallsPay
  BY MinedPays DEF ApprovedCallsPay
<1> QED BY <1>1, Invariance, PTL

\* A transaction of a client that holds the currency (TempoProvider::pay) is refused
\* neither before nor after the broadcast, whatever the request's splits and memos.
THEOREM ClientSettles == Spec => []ClientTransactionSettles
<1>1. Inv => ClientTransactionSettles
  BY DEF Inv
<1> QED BY <1>1, Invariance, PTL
=============================================================================
