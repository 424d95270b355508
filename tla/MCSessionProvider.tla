--------------------------- MODULE MCSessionProvider ---------------------------
(* Instance of SessionProvider for TLC: see the cfg files for the bounds.    *)
EXTENDS SessionProvider, TLC

CONSTANTS p1, p2

CallSymmetry == Permutations({p1, p2})
OfferedDeposits == {None, 3}
================================================================================
