------------------------- MODULE MCSignedTransaction -------------------------
(* Instance of SignedTransaction: two recipients, memos fixed, bound or absent, *)
(* no splits, an empty list, and lists of one, two and too many.                *)
EXTENDS SignedTransaction

mcMemos == {None, <<"fixed">>}
mcSplits == [amount : 1..2, to : {"shop", "tax"}, memo : mcMemos]
mcPart(amount) == [amount |-> amount, to |-> "tax", memo |-> None]
mcRequest(amounts, splits) ==
  [amount : amounts, to : {"shop"}, memo : mcMemos, sponsored : BOOLEAN, splits : splits]
mcRequests ==
  mcRequest({1, 3}, {<<>>, <<<<mcPart(0)>>>>, <<<<mcPart(1), mcPart(1), mcPart(1)>>>>})
    \cup mcRequest({3}, {<<list>> : list \in BoundedSeq(mcSplits, 2)})

mcCall(op, on, to, amount, memo) ==
  [op |-> op, on |-> on, to |-> to, amount |-> amount, memo |-> memo]
mcCalls ==
  {mcCall("approve", "token", "dex", 1, None), mcCall("swap", "dex", "token", 1, None),
   mcCall("transfer", "token", "shop", 1, None), mcCall("transfer", "currency", "shop", 2, None)}
    \cup {mcCall("transfer", "currency", to, 1, None) : to \in {"shop", "tax"}}
    \cup {mcCall("transferWithMemo", "currency", to, 1, memo) :
            to \in {"shop", "tax"}, memo \in {<<"fixed">>, BoundMemo("here")}}
mcCallLists == BoundedSeq(mcCalls, 3)

mcHolding == {[swaps |-> TRUE, balance |-> 3]}
mcSwapping == {[swaps |-> TRUE, balance |-> 0]}
==============================================================================
