------------------------------ MODULE Journal ------------------------------
(***************************************************************************)
(* What the wallet service promises of its money, whatever it does to the  *)
(* cached balances: the journal of ledger entries takes every leg of every *)
(* request at most once, in a wallet of its currency, the two legs of a    *)
(* transfer together or the debit first.                                   *)
(***************************************************************************)
EXTENDS Integers, Sequences

CONSTANTS WalletIds, Cur, Opening, Requests, Plan

VARIABLES
    total,      \* total[w]: the sum of the entries of w
    posted      \* the idempotency keys of the entries made

Init ==
    /\ total = [w \in WalletIds |-> IF w \in DOMAIN Opening THEN Opening[w] ELSE 0]
    /\ posted = {}

Amount(leg) == IF leg.kind = "debit" THEN -leg.amount ELSE leg.amount

Postable(leg, w) ==
    /\ leg.kind # "open"
    /\ leg.key \notin posted
    /\ Cur[w] = leg.currency

(* One leg; the credit of a transfer only once its debit is there. *)
PostLeg(p, i, w) ==
    /\ Postable(p[i], w)
    /\ \A k \in 1..(i - 1) : p[k].key \in posted
    /\ total' = [total EXCEPT ![w] = @ + Amount(p[i])]
    /\ posted' = posted \cup {p[i].key}

(* Both legs of a transfer. *)
PostBoth(p, v, w) ==
    /\ Postable(p[1], v)
    /\ Postable(p[2], w)
    /\ LET debited == [total EXCEPT ![v] = @ + Amount(p[1])]
       IN  total' = [debited EXCEPT ![w] = @ + Amount(p[2])]
    /\ posted' = posted \cup {p[1].key, p[2].key}

Next ==
    \E q \in Requests :
        \/ \E i \in DOMAIN Plan[q], w \in WalletIds : PostLeg(Plan[q], i, w)
        \/ Len(Plan[q]) = 2 /\ \E v, w \in WalletIds : PostBoth(Plan[q], v, w)

Spec == Init /\ [][Next]_<<total, posted>>
=============================================================================
