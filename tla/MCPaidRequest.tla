----------------------------- MODULE MCPaidRequest -----------------------------
(* Instance of PaidRequest for TLC: one route behind each gate, and three     *)
(* whose description the header does not bear.  The layer's price, once       *)
(* raised, is what the extractor's route cost before.                         *)
EXTENDS PaidRequest, TLC

CONSTANTS c1, c2

mcDeployments == {<<1, 0>>, <<0, 1>>}

mcSymmetry == Permutations(Calls)

mcRoutes == {"cheap", "dear", "both", "metered", "cut", "foreign", "broken"}
mcGate ==
  [cheap |-> "layer", dear |-> "extractor", both |-> "composed", metered |-> "session",
   cut |-> "extractor", foreign |-> "extractor", broken |-> "extractor"]
mcOffered ==
  [r \in mcRoutes |-> IF r = "both" THEN <<"tempo", "stripe">> ELSE <<"tempo">>]
mcPrice == [r \in mcRoutes |-> IF r = "dear" THEN 2 ELSE 1]
mcOpaque == [r \in mcRoutes |-> IF r \in {"metered", "cut"} THEN 5 ELSE None]
mcMemo == [r \in mcRoutes |-> IF r = "both" THEN 7 ELSE None]
mcDescription ==
  [r \in mcRoutes |->
     CASE r = "cut" -> "payment" [] r = "foreign" -> "foreign" [] r = "broken" -> "lines"
       [] OTHER -> "plain"]
mcSupports == {<<"tempo", "charge">>, <<"stripe", "charge">>, <<"tempo", "session">>}
mcWishes == {NoPreference, {<<"tempo", 1>>, <<"stripe", 2>>}, {<<"tempo", 0>>}}
================================================================================
