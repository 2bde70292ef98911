----------------------------- MODULE MCRenewals -----------------------------
(* A package of two operators; its terms get better, worse or both.        *)
EXTENDS Renewals

CONSTANTS channel, brand

MCTerms(o, price, credits) == [owner |-> o, price |-> price, credits |-> credits, period |-> 1]
MCFirst == MCTerms(channel, 1, 1)
MCOffers == {MCTerms(channel, 1, 2), MCTerms(channel, 2, 2), MCTerms(brand, 1, 1)}
=============================================================================
