------------------------------- MODULE MCMeta -------------------------------
(* Instances of MetaState for TLC. *)
EXTENDS MetaState, TLC, FiniteSetsExt

CONSTANTS a1, a2, a3

Rich == [stable |-> MaxBalance, covenant |-> MaxBalance - 1, nonce |-> 0]
Poor == [stable |-> 1, covenant |-> 0, nonce |-> 0]

(* one account has the largest balance, one has little, one does not exist *)
ThreeAccounts == (a1 :> Rich) @@ (a2 :> Poor) @@ (a3 :> Absent)

To(a, f, r) == [to |-> a, fee |-> f, reward |-> r]
(* A billing of two receivers; one that overflows at its second receiver;   *)
(* one whose second receiver has no account at first.                       *)
SomeBills == {<<To(a2, 1, 1), To(a1, 1, 0)>>,
              <<To(a2, 1, 1), To(a1, 0, 1)>>,
              <<To(a2, 0, 1), To(a3, 1, 1)>>}
StableOf(o) == IF o = Absent THEN 0 ELSE o.stable
Total(m) == MapThenSumSet(LAMBDA a : StableOf(m[a]), Addr)

(* Transfers neither make nor lose coins, at any balance up to the largest  *)
(* integer, with accounts in either map: what readers see is what the file  *)
(* holds and what billings have credited since the last block.              *)
CoinsAddUp == Total(View) = Total(file) + credited
=============================================================================
