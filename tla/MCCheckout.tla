----------------------------- MODULE MCCheckout -----------------------------
(* Two orders that compete for one package of supply, one unit of wallet   *)
(* money and one campaign place; the first is a package paid half by the   *)
(* wallet, or a top-up, the second is paid by the wallet alone.            *)
EXTENDS Checkout

CONSTANTS o1, o2

MCTerms(kind, internal, external) ==
  [kind |-> kind, internal |-> internal, external |-> external]
MCOffers ==
  [o \in {o1, o2} |->
     IF o = o1 THEN {MCTerms("package", 1, 1), MCTerms("topup", 0, 1)}
               ELSE {MCTerms("package", 1, 0)}]
=============================================================================
