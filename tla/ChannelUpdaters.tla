-------------------------- MODULE ChannelUpdaters --------------------------
(***************************************************************************)
(* What the closures that SessionMethod hands to update_channel make of a  *)
(* channel's record.  A record is abstracted to its spent amount.          *)
(***************************************************************************)
EXTENDS Integers

CONSTANTS
  Updaters,   \* the closures in use
  Credit      \* the highest voucher: deductions stop there

ASSUME UpdaterAssumption ==
  /\ Updaters \subseteq {"open", "deduct", "delete"}
  /\ Credit \in Nat

Absent == -1    \* no record
Refused == -2   \* the closure returned an error

Records == 0..Credit

\* Mutant: open starts the record again.
UpdatedReset(u, v) ==
  CASE u = "open" -> 0
    [] u = "deduct" -> IF v = Absent \/ v >= Credit THEN Refused ELSE v + 1
    [] u = "delete" -> Absent

\* open keeps an existing record's spent amount, deduct wants a record with
\* credit left, delete is any closure that returns Ok(None).
Updated(u, v) ==
  CASE u = "open" -> IF v = Absent THEN 0 ELSE v
    [] u = "deduct" -> IF v = Absent \/ v >= Credit THEN Refused ELSE v + 1
    [] u = "delete" -> Absent
=============================================================================
