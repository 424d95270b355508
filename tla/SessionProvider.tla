--------------------------- MODULE SessionProvider ---------------------------
(***************************************************************************)
(* TempoSessionProvider, the client side of payment channels, with the     *)
(* servers its credentials go to.  The provider is cloned and shared: its  *)
(* registry is copied, a signature or a node is awaited, and the copy is   *)
(* put back.  No answer of a server ever reaches the registry.             *)
(*                                                                         *)
(* A key stands for a payee, its currency, escrow and operator.  The       *)
(* servers check what SessionChannel says they check, in one step here.    *)
(***************************************************************************)
EXTENDS Integers, FiniteSets

CONSTANTS
  Keys,          \* channel_key values: one per server and escrow
  Calls,         \* calls of the provider that may be under way together
  MaxPays,       \* calls of pay (bound)
  MaxOther,      \* calls of send_voucher and of close (bound)
  Amount,        \* the amount of a session challenge
  Suggestions,   \* suggested_deposit of the challenges, None among them
  MaxDeposit,    \* max_deposit, or None
  DefaultDeposit,\* default_deposit, or None
  MaxPrecompile, \* PRECOMPILE_MAX_CUMULATIVE_AMOUNT
  Troubles       \* "lost": a credential does not arrive; "rpc": a node fails;
                 \* "restart": the client loses its memory

None == -1

ASSUME ProviderAssumption ==
  /\ None \notin Keys /\ IsFiniteSet(Calls) /\ MaxPays \in Nat /\ MaxOther \in Nat
  /\ Amount \in Nat \ {0}
  /\ Suggestions \subseteq Nat \cup {None}
  /\ MaxDeposit \in Nat \cup {None} /\ DefaultDeposit \in Nat \cup {None}
  /\ MaxPrecompile \in Nat
  /\ Troubles \subseteq {"lost", "rpc", "restart"}

\* Every pay may open a channel: ids are numbered in the order of their salts.
Ids == 1..MaxPays

VARIABLES
  precompile,  \* whether the escrow is the TIP-1034 precompile
  registry,    \* channels: the entry of each key, id 0 when there is none
  idToKey,     \* channel_id_to_key
  last,        \* the key of last_challenge
  call,        \* what each call is about to do
  opened,      \* how many channel ids have been made up
  channel,     \* each channel as its contract and its server know it
  pays, other, \* calls made
  authorised,  \* history: the highest amount signed for each channel
  raced,       \* history: a call began while another was under way
  restarted,   \* history: the client has lost its memory
  strayed      \* history: channels whose open credential was lost or refused

clientVars == <<precompile, registry, idToKey, last, opened, pays, other>>
historyVars == <<authorised, raced, restarted, strayed>>
vars == <<clientVars, call, channel, historyVars>>

NoEntry == [id |-> 0, cum |-> 0]

\* The phases of a call: "recover" and "open" read a node, "sign" waits for the
\* signer, "sent" is a credential on its way.
Phases == {"idle", "recover", "open", "sign", "sent", "accepted", "refused"}
Kinds == {"none", "voucher", "recovered", "event", "open", "close"}

NoCall == [pc |-> "idle", kind |-> "none", key |-> None, id |-> 0, cum |-> 0, deposit |-> 0]

\* known: the server has a record; gone: the channel is finalized.
NoChannel ==
  [key |-> None, deposit |-> 0, settled |-> 0, known |-> FALSE, highest |-> 0, gone |-> FALSE]

TypeOK ==
  /\ precompile \in BOOLEAN
  /\ registry \in [Keys -> [id: 0..MaxPays, cum: Nat]]
  /\ idToKey \in [Ids -> Keys \cup {None}]
  /\ last \in Keys \cup {None}
  /\ call \in [Calls -> [pc: Phases, kind: Kinds, key: Keys \cup {None},
                         id: 0..MaxPays, cum: Nat, deposit: Nat \cup {None}]]
  /\ opened \in 0..MaxPays /\ pays \in 0..MaxPays /\ other \in 0..MaxOther
  /\ channel \in [Ids -> [key: Keys \cup {None}, deposit: Nat, settled: Nat,
                          known: BOOLEAN, highest: Nat, gone: BOOLEAN]]
  /\ authorised \in [Ids -> Nat]
  /\ raced \in BOOLEAN /\ restarted \in BOOLEAN /\ strayed \subseteq Ids

-----------------------------------------------------------------------------
(* Amounts.                                                                *)

Smaller(a, b) == IF a < b THEN a ELSE b
Larger(a, b) == IF a > b THEN a ELSE b

\* Mutant: what the server suggests is taken as it is.
ResolveUncapped(suggested) ==
  IF suggested # None THEN suggested
  ELSE IF MaxDeposit # None THEN MaxDeposit ELSE DefaultDeposit

\* resolve_deposit: None stands for its error.
ResolveDeposit(suggested) ==
  IF suggested # None /\ MaxDeposit # None THEN Smaller(suggested, MaxDeposit)
  ELSE IF suggested # None THEN suggested
  ELSE IF MaxDeposit # None THEN MaxDeposit ELSE DefaultDeposit

\* A voucher of the precompile carries a uint96.
Signable(cum) == precompile => cum <= MaxPrecompile

-----------------------------------------------------------------------------
(* Calls.                                                                  *)

Busy == \E p \in Calls : call[p].pc # "idle"

Set(p, r) == call' = [call EXCEPT ![p] = r]

Give(p) == Set(p, NoCall)

\* Mutant: the voucher is for the amount of this request.
NextCumOfRequest(cum) == Amount

\* Every request is paid on top of what was authorised before.
NextCum(cum) == cum + Amount

\* pay: the entry is copied; without one the channel the server names is looked
\* up, and else a channel is opened.
PayStart(p) ==
  /\ call[p].pc = "idle" /\ pays < MaxPays
  /\ pays' = pays + 1
  /\ raced' = (raced \/ Busy)
  /\ \E k \in Keys, suggested \in Suggestions :
       /\ last' = k
       /\ \/ /\ registry[k].id # 0
             /\ Set(p, [NoCall EXCEPT !.pc = "sign", !.kind = "voucher", !.key = k,
                          !.id = registry[k].id, !.cum = NextCum(registry[k].cum)])
          \/ /\ registry[k].id = 0 /\ ~precompile
             /\ \E i \in Ids :
                  /\ channel[i].known /\ channel[i].key = k
                  /\ Set(p, [NoCall EXCEPT !.pc = "recover", !.key = k, !.id = i,
                               !.deposit = suggested])
          \/ /\ registry[k].id = 0
             /\ Set(p, [NoCall EXCEPT !.pc = "open", !.key = k, !.deposit = suggested])
  /\ UNCHANGED <<precompile, registry, idToKey, opened, other, channel,
                 authorised, restarted, strayed>>

\* try_recover_channel: what was settled is the safe start.
Recoverable(i) == channel[i].deposit > 0 /\ ~channel[i].gone

Recover(p) ==
  /\ call[p].pc = "recover"
  /\ \/ /\ Recoverable(call[p].id)
        /\ Set(p, [call[p] EXCEPT !.pc = "sign", !.kind = "recovered",
                     !.cum = NextCum(channel[call[p].id].settled)])
     \/ /\ ~Recoverable(call[p].id) \/ "rpc" \in Troubles
        /\ Set(p, [call[p] EXCEPT !.pc = "open", !.id = 0])
  /\ UNCHANGED <<clientVars, channel, historyVars>>

\* create_open_payload: a random salt makes the channel a new one, and the nonce
\* and the gas price are asked for.
OpenContract(p) ==
  /\ call[p].pc = "open" /\ ~precompile
  /\ LET deposit == ResolveDeposit(call[p].deposit)
     IN \/ /\ deposit # None
           /\ opened' = opened + 1
           /\ Set(p, [call[p] EXCEPT !.pc = "sign", !.kind = "open", !.id = opened + 1,
                        !.cum = Amount, !.deposit = deposit])
        \/ /\ deposit = None \/ "rpc" \in Troubles
           /\ Give(p)
           /\ UNCHANGED opened
  /\ UNCHANGED <<precompile, registry, idToKey, last, pays, other, channel, historyVars>>

\* create_precompile_open_payload: the amounts must fit before a node is asked;
\* the id comes of the transaction, which the salt makes a new one.
OpenPrecompile(p) ==
  /\ call[p].pc = "open" /\ precompile
  /\ LET deposit == ResolveDeposit(call[p].deposit)
         openable == deposit # None /\ Signable(deposit) /\ Signable(Amount)
     IN \/ /\ openable
           /\ opened' = opened + 1
           /\ Set(p, [call[p] EXCEPT !.pc = "sign", !.kind = "open", !.id = opened + 1,
                        !.cum = Amount, !.deposit = deposit])
        \/ /\ ~openable \/ "rpc" \in Troubles
           /\ Give(p)
           /\ UNCHANGED opened
  /\ UNCHANGED <<precompile, registry, idToKey, last, pays, other, channel, historyVars>>

\* Mutant: what was opened or raised is not put back.
RecordForgotten(p) == registry

\* The copy is put back, whatever has become of the entry meanwhile.
Record(p) == [registry EXCEPT ![call[p].key] = [id |-> call[p].id, cum |-> call[p].cum]]

Authorise(p) == authorised' = [authorised EXCEPT ![call[p].id] = Larger(@, call[p].cum)]

\* A voucher of pay or send_voucher; the id of a recovered channel is new.
SignVoucher(p) ==
  /\ call[p].pc = "sign" /\ call[p].kind \in {"voucher", "recovered", "event"}
  /\ \/ /\ Signable(call[p].cum)
        /\ registry' = Record(p)
        /\ idToKey' = IF call[p].kind = "recovered"
                        THEN [idToKey EXCEPT ![call[p].id] = call[p].key] ELSE idToKey
        /\ Authorise(p)
        /\ Set(p, [call[p] EXCEPT !.pc = "sent"])
     \/ /\ ~Signable(call[p].cum)
        /\ Give(p)
        /\ UNCHANGED <<registry, idToKey, authorised>>
  /\ UNCHANGED <<precompile, last, opened, pays, other, channel,
                 raced, restarted, strayed>>

\* The transaction and the first voucher; the entry counts as opened from here on.
SignOpen(p) ==
  /\ call[p].pc = "sign" /\ call[p].kind = "open"
  /\ registry' = Record(p)
  /\ idToKey' = [idToKey EXCEPT ![call[p].id] = call[p].key]
  /\ Authorise(p)
  /\ Set(p, [call[p] EXCEPT !.pc = "sent"])
  /\ UNCHANGED <<precompile, last, opened, pays, other, channel,
                 raced, restarted, strayed>>

\* create_close_payload: the registry stays as it is.
SignClose(p) ==
  /\ call[p].pc = "sign" /\ call[p].kind = "close"
  /\ \/ /\ Signable(call[p].cum)
        /\ Authorise(p)
        /\ Set(p, [call[p] EXCEPT !.pc = "sent"])
     \/ /\ ~Signable(call[p].cum)
        /\ Give(p)
        /\ UNCHANGED authorised
  /\ UNCHANGED <<clientVars, channel, raced, restarted, strayed>>

\* Mutant: the voucher is for what the server asks, even when it is less.
EventCumAsAsked(required, cum) == required

\* At least the amount required, never less than before.
EventCum(required, cum) == Larger(required, cum)

\* send_voucher, for the channel of the last challenge only.
EventStart(p) ==
  /\ call[p].pc = "idle" /\ other < MaxOther
  /\ other' = other + 1
  /\ raced' = (raced \/ Busy)
  /\ \E i \in Ids :
       /\ channel[i].known /\ ~channel[i].gone
       /\ idToKey[i] # None /\ idToKey[i] = last
       /\ registry[last].id = i
       /\ \E required \in 1..NextCum(channel[i].highest) :
            Set(p, [NoCall EXCEPT !.pc = "sign", !.kind = "event", !.key = last, !.id = i,
                      !.cum = EventCum(required, registry[last].cum)])
  /\ UNCHANGED <<precompile, registry, idToKey, last, opened, pays, channel,
                 authorised, restarted, strayed>>

\* close: the entry of the last challenge is signed as it is.
CloseStart(p) ==
  /\ call[p].pc = "idle" /\ other < MaxOther
  /\ other' = other + 1
  /\ raced' = (raced \/ Busy)
  /\ last # None /\ registry[last].id # 0
  /\ Set(p, [NoCall EXCEPT !.pc = "sign", !.kind = "close", !.key = last,
               !.id = registry[last].id, !.cum = registry[last].cum])
  /\ UNCHANGED <<precompile, registry, idToKey, last, opened, pays, channel,
                 authorised, restarted, strayed>>

-----------------------------------------------------------------------------
(* The servers.                                                            *)

\* The transaction is mined, then the voucher is compared with the deposit.
Openable(p) == call[p].cum <= call[p].deposit

VoucherAcceptable(c, cum) ==
  c.known /\ ~c.gone /\ cum > c.highest /\ cum <= c.deposit

\* Any amount up to the highest voucher may be spent, and a close must cover it.
CloseAcceptable(c, cum) ==
  c.known /\ ~c.gone /\ cum > c.settled /\ cum <= c.deposit

Answer(p, ok) == Set(p, [call[p] EXCEPT !.pc = IF ok THEN "accepted" ELSE "refused"])

Arrive(p) ==
  /\ call[p].pc = "sent"
  /\ LET i == call[p].id
         at == channel[i]
         cum == call[p].cum
     IN \/ /\ call[p].kind = "open"
           /\ channel' = [channel EXCEPT ![i] =
                [NoChannel EXCEPT !.key = call[p].key, !.deposit = call[p].deposit,
                   !.known = Openable(p), !.highest = IF Openable(p) THEN cum ELSE 0]]
           /\ strayed' = IF Openable(p) THEN strayed ELSE strayed \cup {i}
           /\ Answer(p, Openable(p))
        \/ /\ call[p].kind \in {"voucher", "recovered", "event"}
           /\ channel' = IF VoucherAcceptable(at, cum)
                THEN [channel EXCEPT ![i].highest = cum] ELSE channel
           /\ Answer(p, VoucherAcceptable(at, cum))
           /\ UNCHANGED strayed
        \/ /\ call[p].kind = "close"
           /\ CloseAcceptable(at, cum)
           /\ channel' = [channel EXCEPT ![i].gone = TRUE, ![i].settled = cum]
           /\ Answer(p, TRUE)
           /\ UNCHANGED strayed
        \/ /\ call[p].kind = "close"
           /\ ~CloseAcceptable(at, cum) \/ cum < at.highest
           /\ Answer(p, FALSE)
           /\ UNCHANGED <<channel, strayed>>
  /\ UNCHANGED <<clientVars, authorised, raced, restarted>>

\* The answer comes back: send_voucher and close report it, nothing is kept.
Return(p) ==
  /\ call[p].pc \in {"accepted", "refused"}
  /\ Give(p)
  /\ UNCHANGED <<clientVars, channel, historyVars>>

Lose(p) ==
  /\ "lost" \in Troubles
  /\ call[p].pc = "sent"
  /\ Give(p)
  /\ strayed' = IF call[p].kind = "open" THEN strayed \cup {call[p].id} ELSE strayed
  /\ UNCHANGED <<clientVars, channel, authorised, raced, restarted>>

\* The payee settles a voucher it has accepted.
Settle ==
  /\ \E i \in Ids :
       /\ channel[i].known /\ ~channel[i].gone
       /\ channel[i].settled < channel[i].highest
       /\ channel' = [channel EXCEPT ![i].settled = channel[i].highest]
  /\ UNCHANGED <<clientVars, call, historyVars>>

\* The registry is in memory.
Restart ==
  /\ "restart" \in Troubles /\ ~restarted
  /\ restarted' = TRUE
  /\ registry' = [k \in Keys |-> NoEntry]
  /\ idToKey' = [i \in Ids |-> None]
  /\ last' = None
  /\ call' = [p \in Calls |-> IF call[p].pc = "sent" THEN call[p] ELSE NoCall]
  /\ UNCHANGED <<precompile, opened, pays, other, channel, authorised, raced, strayed>>

-----------------------------------------------------------------------------

Init ==
  /\ precompile \in BOOLEAN
  /\ registry = [k \in Keys |-> NoEntry]
  /\ idToKey = [i \in Ids |-> None]
  /\ last = None
  /\ call = [p \in Calls |-> NoCall]
  /\ opened = 0 /\ pays = 0 /\ other = 0
  /\ channel = [i \in Ids |-> NoChannel]
  /\ authorised = [i \in Ids |-> 0]
  /\ raced = FALSE /\ restarted = FALSE /\ strayed = {}

Next ==
  \/ \E p \in Calls :
       \/ PayStart(p) \/ EventStart(p) \/ CloseStart(p)
       \/ Recover(p) \/ OpenContract(p) \/ OpenPrecompile(p)
       \/ SignVoucher(p) \/ SignOpen(p) \/ SignClose(p)
       \/ Arrive(p) \/ Return(p) \/ Lose(p)
  \/ Settle \/ Restart

Spec == Init /\ [][Next]_vars

-----------------------------------------------------------------------------
(* Properties.                                                             *)

\* However the calls overlap, get lost or start again, the client authorises on
\* a channel at most one amount per call, and never locks more than its cap.
ExposureBounded ==
  \A i \in Ids :
    /\ authorised[i] <= Amount * (pays + other)
    /\ MaxDeposit # None => channel[i].deposit <= MaxDeposit

\* A credential is refused for a reason: the calls overlapped, the client had
\* restarted, the channel was never opened or is closed, the deposit is used up,
\* the server asked for less than it has, or has settled all there is to close.
\* A client that pays one request after another, over a network that loses its
\* vouchers, is never told that an amount is stale.
RefusedForCause ==
  \A p \in Calls :
    call[p].pc = "refused" =>
      \/ raced \/ restarted
      \/ call[p].id \in strayed \/ channel[call[p].id].gone
      \/ call[p].cum > channel[call[p].id].deposit
      \/ call[p].kind = "event" /\ call[p].cum <= channel[call[p].id].highest
      \/ call[p].kind = "close" /\ call[p].cum <= channel[call[p].id].settled

\* One deposit per server: a second channel is opened for a key only by calls that
\* overlapped, or after the registry was lost.
OneChannelPerKey ==
  \A i, j \in Ids :
    (i # j /\ channel[i].key = channel[j].key /\ channel[i].key # None) =>
      raced \/ restarted

\* cumulative() covers every voucher that was sent, unless calls overlapped.
RegistryCoversVouchers ==
  \A k \in Keys :
    registry[k].id # 0 =>
      registry[k].cum >= authorised[registry[k].id] \/ raced \/ restarted
==============================================================================
