---------------------------- MODULE MCPaperAccount ----------------------------
(* One instrument, a dividend and a 3-for-2 split that take effect at the  *)
(* same open, and two sessions orders can be placed for.                   *)
EXTENDS PaperAccount, TLC

CONSTANTS stock, div, split

MCInstruments == {stock}
MCActions == {div, split}
MCKind == (div :> "dividend") @@ (split :> "split")
MCSecurity == [a \in MCActions |-> stock]
MCEffectiveAt == [a \in MCActions |-> 7]
MCPayAt == [a \in MCActions |-> 9]
MCRatio == [a \in MCActions |-> <<3, 2>>]
MCPrice == [i \in MCInstruments |-> (0 :> 1) @@ (1 :> 1) @@ (2 :> 2) @@ (3 :> 2)]
MCAmount == [a \in MCActions |-> 1]

Symmetry == Permutations(OrderIds)

===============================================================================
