----------------------------- MODULE WsTranslator -----------------------------
(***************************************************************************)
(* The MPP WebSocket transport for alloy: MppWsConnect opens a connection, *)
(* run_translator carries JSON-RPC over it and pays what the server asks.  *)
(*                                                                         *)
(* One action per arm of the translator's select, one disjunct per way the *)
(* arm ends.  The server, the socket, the providers and alloy's pubsub     *)
(* service (which reconnects after a transient end and issues the requests *)
(* in flight again) are the environment.                                   *)
(***************************************************************************)
EXTENDS Integers, Sequences, SequencesExt

CONSTANTS
  Rpcs,      \* requests the frontend makes (bound)
  Frames,    \* frames the server sends over all connections (bound)
  Connects,  \* connections alloy tries: with_max_retries, and the first
  Mishaps    \* "send": a write to the socket fails; "pong": a pong is missed;
             \* "lost": the peer is gone; "provider": a provider fails;
             \* "repeat": the server asks again before it is answered;
             \* "junk": an error frame, a binary or malformed one

ASSUME TranslatorAssumption ==
  /\ Rpcs \in Nat /\ Frames \in Nat /\ Connects \in Nat
  /\ Mishaps \subseteq {"send", "pong", "lost", "provider", "repeat", "junk"}

\* A challenge is answered by pay, a needVoucher by next_voucher.
Requests == {"pay", "voucher"}

VARIABLES
  fatal,      \* the latch shared by the clones of the connector
  conn,       \* "off"; "on": a translator runs; "gone": the frontend has left
  handshake,  \* handshake_complete
  awaiting,   \* credential_awaiting_receipt
  task,       \* pending_pay and pending_voucher
  expecting,  \* expecting_pong
  outbound,   \* pending_outbound
  wire,       \* requests written to the socket of this connection
  asked,      \* the server's view: what it asked for and has not been given
  welcomed,   \* the server's view: a credential has come on this connection
  issued,     \* requests the frontend has made
  answered,   \* those it has an answer for
  frames, connects,   \* what is left of the bounds
  owed,       \* history: a credential sent here has had no receipt
  abandoned,  \* history: alloy was let reconnect while a receipt was owed
  excused,    \* history: our own side of the socket failed while one was owed
  blamed      \* history: somebody has done what must end the transport

linkVars == <<handshake, awaiting, task, expecting, outbound, wire, asked, welcomed>>
frontVars == <<issued, answered>>
historyVars == <<owed, abandoned, excused, blamed>>
vars == <<fatal, conn, linkVars, frontVars, frames, connects, historyVars>>

Idle == [k \in Requests |-> "none"]

TypeOK ==
  /\ fatal \in BOOLEAN /\ conn \in {"off", "on", "gone"}
  /\ handshake \in BOOLEAN /\ awaiting \in BOOLEAN /\ expecting \in BOOLEAN
  /\ task \in [Requests -> {"none", "running", "ready", "failed"}]
  /\ outbound \in Seq(Nat) /\ wire \in Seq(Nat)
  /\ asked \subseteq Requests /\ welcomed \in BOOLEAN
  /\ issued \in Nat /\ answered \subseteq Nat
  /\ frames \in Nat /\ connects \in Nat
  /\ owed \in BOOLEAN /\ abandoned \in BOOLEAN
  /\ excused \in BOOLEAN /\ blamed \in BOOLEAN

-----------------------------------------------------------------------------
(* How a translator ends.                                                  *)

Reset ==
  /\ handshake' = FALSE /\ awaiting' = FALSE /\ expecting' = FALSE
  /\ task' = Idle /\ outbound' = <<>> /\ wire' = <<>>
  /\ asked' = {} /\ welcomed' = FALSE /\ owed' = FALSE

\* close_with_error: alloy may connect again.
EndTransient(ours) ==
  /\ Reset
  /\ conn' = "off"
  /\ abandoned' = (abandoned \/ owed)
  /\ excused' = (excused \/ (ours /\ owed))
  /\ UNCHANGED <<fatal, frontVars, connects, blamed>>

\* close_with_transport_error: the latch is set, connect refuses from now on.
EndFatal(cause) ==
  /\ Reset
  /\ conn' = "off"
  /\ fatal' = TRUE
  /\ blamed' = (blamed \/ cause)
  /\ UNCHANGED <<frontVars, connects, abandoned, excused>>

-----------------------------------------------------------------------------
(* The connector and the frontend.                                         *)

Ascending(s) == \A i, j \in 1..Len(s) : i < j => s[i] < s[j]

\* The requests in flight, issued again in their order (there is one such sequence).
Reissued ==
  {s \in UNION {[1..n -> 1..issued] : n \in 0..issued} :
     Ascending(s) /\ ToSet(s) = (1..issued) \ answered}

Connect ==
  /\ conn = "off" /\ ~fatal
  /\ connects > 0
  /\ connects' = connects - 1
  /\ \/ conn' = "on" /\ outbound' \in Reissued
     \/ UNCHANGED <<conn, outbound>>
  /\ UNCHANGED <<fatal, handshake, awaiting, task, expecting, wire, asked,
                 welcomed, frontVars, frames, historyVars>>

\* Mutant: a request that comes while a payment is made is dropped.
BufferedWhenOpen ==
  IF handshake /\ task = Idle THEN Append(outbound, issued + 1) ELSE outbound

Buffered == Append(outbound, issued + 1)

\* Always polled: the request is queued, whether it can be sent or not.
FrontendSends ==
  /\ conn # "gone"
  /\ issued < Rpcs
  /\ issued' = issued + 1
  /\ outbound' = IF conn = "on" THEN Buffered ELSE outbound
  /\ UNCHANGED <<fatal, conn, handshake, awaiting, task, expecting, wire,
                 asked, welcomed, answered, frames, connects, historyVars>>

\* The handle is dropped: the loop ends without a reason, tasks are aborted.
Shutdown ==
  /\ conn = "on"
  /\ Reset
  /\ conn' = "gone"
  /\ UNCHANGED <<fatal, frontVars, frames, connects, abandoned, excused, blamed>>

-----------------------------------------------------------------------------
(* The arms of the translator.                                             *)

\* Mutant: only a payment in flight holds the frontend back.
OpenWhenIdle == task = Idle

\* frontend_open
Open == handshake /\ task = Idle

WriteFails == EndTransient(TRUE)

Flush ==
  /\ conn = "on"
  /\ Open /\ outbound # <<>>
  /\ \/ /\ outbound' = Tail(outbound)
        /\ wire' = Append(wire, Head(outbound))
        /\ UNCHANGED <<fatal, conn, handshake, awaiting, task, expecting, asked,
                       welcomed, frontVars, connects, historyVars>>
     \/ "send" \in Mishaps /\ WriteFails
  /\ UNCHANGED frames

\* A task ends: the provider has signed and broadcast, or has failed.
ProviderDone(k) ==
  /\ task[k] = "running"
  /\ \/ task' = [task EXCEPT ![k] = "ready"]
     \/ "provider" \in Mishaps /\ task' = [task EXCEPT ![k] = "failed"]
  /\ UNCHANGED <<fatal, conn, handshake, awaiting, expecting, outbound, wire,
                 asked, welcomed, frontVars, frames, connects, historyVars>>

\* send_credential: what was written counts as sent.
SendCredential(k) ==
  \/ /\ task' = [task EXCEPT ![k] = "none"]
     /\ handshake' = TRUE /\ awaiting' = TRUE
     /\ asked' = asked \ {k} /\ welcomed' = TRUE /\ owed' = TRUE
     /\ UNCHANGED <<fatal, conn, expecting, outbound, wire, frontVars,
                    connects, abandoned, excused, blamed>>
  \/ "send" \in Mishaps /\ WriteFails
  \/ "provider" \in Mishaps /\ EndFatal(TRUE)   \* format_authorization

\* The task has ended: its credential goes out, whatever it is a payment of.
Settle(k) ==
  /\ conn = "on"
  /\ \/ task[k] = "ready" /\ SendCredential(k)
     \/ task[k] = "failed" /\ EndFatal(TRUE)
  /\ UNCHANGED frames

Keepalive ==
  /\ conn = "on"
  /\ \/ expecting /\ "pong" \in Mishaps /\ EndTransient(TRUE)
     \/ /\ ~expecting
        /\ \/ /\ expecting' = TRUE
              /\ UNCHANGED <<fatal, conn, handshake, awaiting, task, outbound, wire,
                             asked, welcomed, frontVars, connects, historyVars>>
           \/ "send" \in Mishaps /\ WriteFails
  /\ UNCHANGED frames

\* Mutant: the deadline is only armed until the first credential.
WaitingForHandshake == ~handshake

Waiting == ~Open

\* The deadline is armed while the frontend is held back, and was set anew
\* when the payment began.
Deadline ==
  /\ conn = "on"
  /\ Waiting
  /\ EndFatal(TRUE)
  /\ UNCHANGED frames

-----------------------------------------------------------------------------
(* What comes from the socket.                                             *)

\* Challenge and NeedVoucher: one task of each kind at a time.
ServerAsks(k) ==
  /\ k \notin asked \/ "repeat" \in Mishaps
  /\ \/ task[k] # "none" /\ EndFatal(k \in asked)
     \/ /\ task[k] = "none"
        /\ \/ /\ task' = [task EXCEPT ![k] = "running"]
              /\ asked' = asked \cup {k}
              /\ UNCHANGED <<fatal, conn, handshake, awaiting, expecting, outbound, wire,
                             welcomed, frontVars, connects, historyVars>>
           \/ k = "pay" /\ "provider" \in Mishaps /\ EndFatal(TRUE)   \* not supported

Challenge == ServerAsks("pay")
NeedVoucher == ServerAsks("voucher")

\* send_to_frontend fails: the handle was dropped since its arm was polled.  That is
\* a fatal end, and the clones of the connector find the latch set.
HandleGone ==
  /\ Reset
  /\ conn' = "gone"
  /\ fatal' = TRUE
  /\ UNCHANGED <<frontVars, connects, abandoned, excused, blamed>>

\* Data: the frontend gets an answer to a request of this connection, if it is there.
ServerAnswers ==
  \/ /\ \E r \in ToSet(wire) \ answered : answered' = answered \cup {r}
     /\ UNCHANGED <<fatal, conn, linkVars, issued, connects, historyVars>>
  \/ HandleGone

\* Mutant: the receipt is published and the wait goes on.
ReceiptNoticed == UNCHANGED awaiting

ReceiptEndsWait == awaiting' = FALSE

ServerReceipt ==
  /\ ReceiptEndsWait
  /\ owed' = FALSE
  /\ UNCHANGED <<fatal, conn, handshake, task, expecting, outbound, wire, asked,
                 welcomed, frontVars, connects, abandoned, excused, blamed>>

ServerPong ==
  /\ expecting
  /\ expecting' = FALSE
  /\ UNCHANGED <<fatal, conn, handshake, awaiting, task, outbound, wire, asked,
                 welcomed, frontVars, connects, historyVars>>

\* Mutant: what is retried depends on the frame alone.
PeerGoneFor(final) == final

\* is_fatal_close, and a peer that goes while a receipt is owed.
PeerGone(final) == awaiting \/ final

\* "final" is a close code other than Restart and Again; a stream that ends or
\* fails has none.
ServerGone(final) ==
  \/ PeerGone(final) /\ EndFatal(owed \/ final)
  \/ ~PeerGone(final) /\ EndTransient(FALSE)

\* An error frame, a binary one, one that cannot be parsed.
Junk == "junk" \in Mishaps /\ EndFatal(TRUE)

FromSocket ==
  /\ conn = "on"
  /\ frames > 0
  /\ frames' = frames - 1
  /\ \/ Challenge \/ NeedVoucher
     \/ ServerAnswers
     \/ ServerReceipt
     \/ ServerPong
     \/ "lost" \in Mishaps /\ \E final \in BOOLEAN : ServerGone(final)
     \/ Junk

-----------------------------------------------------------------------------

Init ==
  /\ fatal = FALSE /\ conn = "off"
  /\ handshake = FALSE /\ awaiting = FALSE /\ expecting = FALSE
  /\ task = Idle /\ outbound = <<>> /\ wire = <<>>
  /\ asked = {} /\ welcomed = FALSE
  /\ issued = 0 /\ answered = {}
  /\ frames = Frames /\ connects = Connects
  /\ owed = FALSE /\ abandoned = FALSE /\ excused = FALSE /\ blamed = FALSE

Next ==
  \/ Connect \/ FrontendSends \/ Shutdown
  \/ Flush \/ Keepalive \/ Deadline \/ FromSocket
  \/ \E k \in Requests : ProviderDone(k) \/ Settle(k)

Spec == Init /\ [][Next]_vars

\* The select polls its arms: a timer that has elapsed fires, a queue that can be
\* flushed is.  Nothing is assumed of the server or of the providers.
FairSpec ==
  /\ Spec
  /\ WF_vars(Flush) /\ WF_vars(Deadline)
  /\ \A k \in Requests : WF_vars(Settle(k))

-----------------------------------------------------------------------------
(* Properties.                                                             *)

\* No application request reaches the server before a credential has, on every
\* connection: the requests of an earlier connection wait for the new payment.
CredentialFirst == wire # <<>> => welcomed

\* A server that takes a credential and goes away is not paid again: the
\* transport reconnects while a receipt is owed only when its own writes or
\* pings failed.
RetriesOnlyUnowed == abandoned => excused

\* The transport ends for good only when somebody has done what must end it: the
\* server closed for good, sent an error or asked twice, a provider failed or was
\* too slow, the peer went away while a receipt was owed, or the application left as
\* an answer was handed to it.  A receipt that has come is not owed.
FatalHasCause == fatal => blamed \/ conn = "gone"

\* A connection carries every request still to be answered, once and in the order
\* the frontend made them, however many payments came in between.
RpcOrder ==
  conn = "on" =>
    /\ Ascending(wire \o outbound)
    /\ (1..issued) \ answered \subseteq ToSet(wire \o outbound)

\* No request stays behind a payment for ever: it is sent, or the connection ends.
RpcsLeave ==
  \A r \in 1..Rpcs : r \in ToSet(outbound) ~> r \notin ToSet(outbound)
==============================================================================
