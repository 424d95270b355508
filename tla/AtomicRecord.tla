---------------------------- MODULE AtomicRecord ----------------------------
(***************************************************************************)
(* What the ChannelStore trait asks of update_channel: each call reads,    *)
(* transforms and writes the record in one step, or changes nothing.       *)
(***************************************************************************)
EXTENDS ChannelUpdaters

VARIABLES
  value,   \* the record
  acked    \* deductions acknowledged since the record was created

\* A call that fails may still have changed the record: only the caller of an
\* acknowledged deduction knows.
Update(u) ==
  /\ Updated(u, value) # Refused
  /\ value' = Updated(u, value)
  /\ acked' \in CASE u = "deduct" -> {acked, acked + 1}
                  [] u = "delete" -> {0}
                  [] OTHER -> {acked}

Init == value = Absent /\ acked = 0
Next == \E u \in Updaters : Update(u)
Spec == Init /\ [][Next]_<<value, acked>>
=============================================================================
