------------------------------ MODULE PaymentGate ------------------------------
(***************************************************************************)
(* What Mpp issues and what it accepts, as functions of its configuration: *)
(* challenges bound to the secret key, the checks of a credential, and the *)
(* offers a server composes and a client chooses from.                     *)
(*                                                                         *)
(* A route is an endpoint behind one of four gates: PaymentLayer::charge,  *)
(* the MppCharge extractor, an application that uses compose and           *)
(* compose_verify, or one that uses verify_session.  All routes share one  *)
(* secret, realm, currency and recipient.                                  *)
(***************************************************************************)
EXTENDS Integers, Sequences, FiniteSets

CONSTANTS
  Routes,
  GateOf,      \* of each route: "layer", "extractor", "composed" or "session"
  OfferedBy,   \* of each route: the sequence of the methods it accepts
  BasePrice,   \* of each route: what it charges
  PinnedTo,    \* of each route: the opaque value it pins, or None
  MemoOf,      \* of each route: the memo it fixes for transfers, or None;
               \* only a composed route, which builds its requests, has one
  Description, \* of each route: "plain", "foreign" (not ASCII), "payment" (has
               \* ", payment " in it) or "lines" (has a line break)
  Life,        \* DEFAULT_EXPIRES_MINUTES, in ticks
  Supports     \* the <<method, intent>> pairs of the client's providers

None == -1

ASSUME GateAssumption ==
  /\ GateOf \in [Routes -> {"layer", "extractor", "composed", "session"}]
  /\ OfferedBy \in [Routes -> Seq(STRING) \ {<<>>}]
  /\ \A r \in Routes : GateOf[r] \in {"layer", "extractor"} => Len(OfferedBy[r]) = 1
  /\ BasePrice \in [Routes -> Nat \ {0}]
  /\ \A r \in Routes : GateOf[r] \in {"layer", "extractor"} => MemoOf[r] = None
  /\ Life \in Nat \ {0}

-----------------------------------------------------------------------------
(* Challenges.                                                             *)

\* The HMAC of everything a challenge says; nobody computes it without the key.
ChallengeId(key, c) ==
  [key |-> key, over |-> <<c.method, c.intent, c.amount, c.memo, c.expires, c.opaque>>]

WithId(key, c) == [c EXCEPT !.id = ChallengeId(key, c)]

\* charge_with_options and stripe_charge: a challenge says when it expires, to the
\* nanosecond, so no two are the same.
ChargeChallenge(key, method, amount, memo, expires) ==
  WithId(key, [id |-> <<>>, method |-> method, intent |-> "charge", amount |-> amount,
               memo |-> memo, expires |-> expires, opaque |-> None])

SessionChallenge(key, amount, expires) ==
  WithId(key, [id |-> <<>>, method |-> "tempo", intent |-> "session", amount |-> amount,
               memo |-> None, expires |-> expires, opaque |-> None])

\* apply_pinned_opaque
PinOpaque(key, c, opaque) ==
  IF opaque = None THEN c ELSE WithId(key, [c EXCEPT !.opaque = opaque])

ExpiresFrom(now, nano) == [at |-> now + Life, nano |-> nano]

IsExpired(c, now) == c.expires.at <= now

\* What a route offers at a price, in the order it lists its methods.
Offers(route, key, price, now, nano) ==
  [i \in DOMAIN OfferedBy[route] |->
     PinOpaque(key,
       IF GateOf[route] = "session"
         THEN SessionChallenge(key, price, ExpiresFrom(now, nano))
         ELSE ChargeChallenge(key, OfferedBy[route][i], price, MemoOf[route],
                              ExpiresFrom(now, nano)),
       PinnedTo[route])]

\* format_www_authenticate and parse_www_authenticate_all.  A header value that is not
\* ASCII becomes a bare scheme, in which no challenge is found.  One whose description
\* has "payment" after a comma is cut there: the opaque, written last, is gone.
Transmitted(route, offers) ==
  CASE Description[route] = "foreign" -> <<>>
    [] Description[route] = "payment" ->
         [i \in DOMAIN offers |-> [offers[i] EXCEPT !.opaque = None]]
    [] OTHER -> offers

\* A header value with a line break is refused where it is made.
Formattable(route) == Description[route] # "lines"

-----------------------------------------------------------------------------
(* Preferences: pairs of a method and a weight, one for each method that   *)
(* some entry of the header matches (the most specific entry counts).      *)

NoPreference == {}

Weight(prefs, c) ==
  IF \E p \in prefs : p[1] = c.method
    THEN (CHOOSE p \in prefs : p[1] = c.method)[2] ELSE None

\* The positions a preference leaves, best first: the higher weight, then the
\* earlier offer; what has weight 0 was opted out of.
Rank(offers, prefs) ==
  LET kept == {i \in DOMAIN offers : Weight(prefs, offers[i]) > 0}
      Before(i, j) == \/ Weight(prefs, offers[i]) > Weight(prefs, offers[j])
                      \/ Weight(prefs, offers[i]) = Weight(prefs, offers[j]) /\ i < j
  IN [n \in 1..Cardinality(kept) |->
        offers[CHOOSE i \in kept : Cardinality({j \in kept : Before(j, i)}) = n - 1]]

\* compose: without a preference, or when nothing is left, the order stays.
Compose(offers, prefs) ==
  IF prefs = NoPreference \/ Rank(offers, prefs) = <<>> THEN offers ELSE Rank(offers, prefs)

\* select_ranked_challenge
Preferred(offers, prefs) == IF prefs = NoPreference THEN offers ELSE Rank(offers, prefs)

Those(offers, Test(_)) ==
  LET kept == {i \in DOMAIN offers : Test(offers[i])}
  IN [n \in 1..Cardinality(kept) |->
        offers[CHOOSE i \in kept : Cardinality({j \in kept : j < i}) = n - 1]]

Supported(offers) ==
  LET Pays(c) == <<c.method, c.intent>> \in Supports IN Those(offers, Pays)

\* select_supported_challenge: what may be paid, best first.
Payable(offers, prefs, now) ==
  LET Open(c) == ~IsExpired(c, now) IN Preferred(Those(Supported(offers), Open), prefs)

-----------------------------------------------------------------------------
(* Credentials.                                                            *)

\* verify_hmac_and_expiry
HmacAndExpiry(c, key, now) == c.id = ChallengeId(key, c) /\ ~IsExpired(c, now)

\* verify_opaque
OpaqueMatches(route, c) == c.opaque = PinnedTo[route]

\* verify_pinned_fields; the method is the one of the handler.
PinnedFields(route, method, c) ==
  c.method = method /\ c.intent = "charge" /\ OpaqueMatches(route, c)

\* verify, after its tiers comes the method.
VerifyCharge(route, method, c, key, now) ==
  HmacAndExpiry(c, key, now) /\ PinnedFields(route, method, c)

\* Mutant: the amount is what the credential says.
AnyAmount(route, c, price) == c.method = "tempo" => c.memo = MemoOf[route]

\* verify_credential_with_expected_request
MatchesExpected(route, c, price) ==
  c.amount = price /\ (c.method = "tempo" => c.memo = MemoOf[route])

\* Mutant: every credential goes to the first handler.
FirstHandler(route, c) == OfferedBy[route][1]

\* compose_verify: the handler of the credential's method, or the first.
Handler(route, c) ==
  IF \E i \in DOMAIN OfferedBy[route] : OfferedBy[route][i] = c.method
    THEN c.method ELSE OfferedBy[route][1]

ComposeVerify(route, c, key, now) ==
  c.intent = "charge" /\ VerifyCharge(route, Handler(route, c), c, key, now)

\* Mpp::verify_session, and what the session method asks of method and intent.
VerifySession(route, c, key, now) ==
  /\ HmacAndExpiry(c, key, now) /\ OpaqueMatches(route, c)
  /\ c.method = "tempo" /\ c.intent = "session"

Admits(route, c, key, price, now) ==
  CASE GateOf[route] \in {"layer", "extractor"} ->
         /\ MatchesExpected(route, c, price)
         /\ VerifyCharge(route, OfferedBy[route][1], c, key, now)
    [] GateOf[route] = "composed" -> ComposeVerify(route, c, key, now)
    [] GateOf[route] = "session" -> VerifySession(route, c, key, now)
================================================================================
