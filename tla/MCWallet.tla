----------------------------- MODULE MCWallet -----------------------------
(* Instances of Wallet for TLC: the requests have names, a .cfg takes some. *)
EXTENDS Wallet, TLC

CONSTANTS usd1, ngn1, ngn2

OneId == {usd1}
TwoCurrencies == {usd1, ngn1}
ThreeIds == {usd1, ngn1, ngn2}

CurrencyOf == [w \in WalletIds |-> IF w = usd1 THEN "USD" ELSE "NGN"]

Funded == usd1 :> 3
BothFunded == usd1 :> 2 @@ ngn1 :> 2
NothingYet == [w \in {} |-> 0]

Credit(c, n, k) == [kind |-> "credit", currency |-> c, amount |-> n, key |-> k]
Debit(c, n, k) == [kind |-> "debit", currency |-> c, amount |-> n, key |-> k]

PlanOf == [q \in Requests |->
    CASE q = "openNGN"  -> <<[Credit("NGN", 1, "none") EXCEPT !.kind = "open"]>>
      [] q = "credit1"  -> <<Credit("USD", 1, "c1")>>
      [] q = "repeat1"  -> <<Credit("USD", 1, "c1")>>
      [] q = "credit2"  -> <<Credit("USD", 2, "c2")>>
      [] q = "debit2"   -> <<Debit("USD", 2, "d2")>>
      [] q = "redebit2" -> <<Debit("USD", 2, "d2")>>
      [] q = "debit3"   -> <<Debit("USD", 3, "d3")>>
      [] q = "toNGN"    -> <<Debit("USD", 1, "t:debit"), Credit("NGN", 2, "t:credit")>>
      [] q = "retoNGN"  -> <<Debit("USD", 1, "t:debit"), Credit("NGN", 2, "t:credit")>>
      [] q = "toUSD"    -> <<Debit("NGN", 2, "u:debit"), Credit("USD", 1, "u:credit")>>]
=============================================================================
