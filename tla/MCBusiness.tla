----------------------------- MODULE MCBusiness -----------------------------
(***************************************************************************)
(* Instances for TLC of what the application keeps for its customers and   *)
(* its operators: subscriptions, payments, adjustments, usage and credit,  *)
(* consent and erasure, settings and the keys that encrypt secrets. They   *)
(* share no state: a behaviour runs the one that part names, and leaves    *)
(* the others in one initial state.  Calls of one kind are alike: two of   *)
(* them start in the order of their names.  Of the calls about one user's  *)
(* erasure any MaxErasureCalls are made.                                   *)
(***************************************************************************)
EXTENDS Subscriptions, Payments, StripeEvents, Adjustments, Usage,
        CreditLots, Consent, Erasure, SettingsStore, KeyRotation

CONSTANT MaxErasureCalls    \* calls about one user's erasure in a behaviour

VARIABLE part

PlanAttempts == {"confirm", "webhook"}
ReferenceOfAttempt == [a \in Attempts |-> IF a \in PlanAttempts THEN "plan" ELSE "pack"]
TokensOf == [q \in Charges |-> IF q = "big" THEN 2 ELSE 1]
TokensOfLot == [l \in Lots |-> l]
WantedBy == [q \in Consumers |-> IF q = "two" THEN 2 ELSE 3]

ProcessOfCall == [c \in ConsentCalls |-> "worker"]
WorkerOf == [c \in Reads |-> IF c = "b1" THEN "q" ELSE "p"]

(***************************************************************************)
(* The documented rotation from no key at all over key A, its own salt and *)
(* key B beside A to key B alone.                                          *)
(***************************************************************************)
Configured(key, previous, salt) == [key |-> key, previous |-> previous, salt |-> salt]
Plan ==
    <<Configured("none", "none", "default"), Configured("A", "none", "default"),
      Configured("A", "none", "own"), Configured("B", "A", "own"), Configured("B", "none", "own")>>

Idling ==
    /\ part # "adjustments" => /\ request.proposer = "ann"
                               /\ \A q \in Reviews : review[q].admin = "ann"
    /\ part # "erasure" => holds = Tables
    /\ part # "deliveries" => keeping = {"redis"}

Init ==
    /\ part \in {"subscriptions", "payments", "deliveries", "adjustments",
                 "usage", "lots", "consent", "erasure", "settings",
                 "rotation"}
    /\ SubInit
    /\ PayInit
    /\ EventInit
    /\ AdjInit
    /\ UsageInit
    /\ LotsInit
    /\ ConsentInit
    /\ ErasureInit
    /\ StoreInit
    /\ RotInit
    /\ Idling

EditsInOrder == call["e2"].pc # "new" => call["e1"].pc # "new"

GrantsInOrder == reached["grant2"] # "start" => reached["grant1"] # "start"

CallsBounded == Cardinality({c \in ErasureCalls : erasing[c].pc # "new"}) <= MaxErasureCalls

SubPart == part = "subscriptions" /\ SubNext
    /\ EditsInOrder'
    /\ UNCHANGED <<part, payVars, eventVars, adjVars, usageVars, lotsVars,
                   consentVars, erasureVars, storeVars, rotVars>>
PayPart == part = "payments" /\ PayNext
    /\ UNCHANGED <<part, subVars, eventVars, adjVars, usageVars, lotsVars,
                   consentVars, erasureVars, storeVars, rotVars>>
EventPart == part = "deliveries" /\ EventNext
    /\ UNCHANGED <<part, subVars, payVars, adjVars, usageVars, lotsVars,
                   consentVars, erasureVars, storeVars, rotVars>>
AdjPart == part = "adjustments" /\ AdjNext
    /\ UNCHANGED <<part, subVars, payVars, eventVars, usageVars, lotsVars,
                   consentVars, erasureVars, storeVars, rotVars>>
UsagePart == part = "usage" /\ UsageNext
    /\ UNCHANGED <<part, subVars, payVars, eventVars, adjVars, lotsVars,
                   consentVars, erasureVars, storeVars, rotVars>>
LotsPart == part = "lots" /\ LotsNext
    /\ UNCHANGED <<part, subVars, payVars, eventVars, adjVars, usageVars,
                   consentVars, erasureVars, storeVars, rotVars>>
ConsentPart == part = "consent" /\ ConsentNext
    /\ GrantsInOrder'
    /\ UNCHANGED <<part, subVars, payVars, eventVars, adjVars, usageVars,
                   lotsVars, erasureVars, storeVars, rotVars>>
ErasurePart == part = "erasure" /\ ErasureNext
    /\ CallsBounded'
    /\ UNCHANGED <<part, subVars, payVars, eventVars, adjVars, usageVars,
                   lotsVars, consentVars, storeVars, rotVars>>
StorePart == part = "settings" /\ StoreNext
    /\ UNCHANGED <<part, subVars, payVars, eventVars, adjVars, usageVars,
                   lotsVars, consentVars, erasureVars, rotVars>>
RotPart == part = "rotation" /\ RotNext
    /\ UNCHANGED <<part, subVars, payVars, eventVars, adjVars, usageVars,
                   lotsVars, consentVars, erasureVars, storeVars>>

Next ==
    \/ SubPart
    \/ PayPart
    \/ EventPart
    \/ AdjPart
    \/ UsagePart
    \/ LotsPart
    \/ ConsentPart
    \/ ErasurePart
    \/ StorePart
    \/ RotPart

Spec == Init /\ [][Next]_<<part, subVars, payVars, eventVars, adjVars,
                           usageVars, lotsVars, consentVars, erasureVars,
                           storeVars, rotVars>>

(***************************************************************************)
(* The types of the ten.                                                   *)
(***************************************************************************)
BusinessTypes ==
    /\ part = "subscriptions" => SubTypeOK
    /\ part = "payments" => PayTypeOK
    /\ part = "deliveries" => EventTypeOK
    /\ part = "adjustments" => AdjTypeOK
    /\ part = "usage" => UsageTypeOK
    /\ part = "lots" => LotsTypeOK
    /\ part = "consent" => ConsentTypeOK
    /\ part = "erasure" => ErasureTypeOK
    /\ part = "settings" => StoreTypeOK
    /\ part = "rotation" => RotTypeOK

(***************************************************************************)
(* Money and events that come in twice, and adjustments of a wallet that   *)
(* two people must agree on.                                               *)
(***************************************************************************)
MoneySafe ==
    /\ PaymentsSafe
    /\ EventOnce
    /\ AdjustmentsSafe

(***************************************************************************)
(* What usage is charged: it stays within its quotas, and credit lots give *)
(* every token once and the oldest first.                                  *)
(***************************************************************************)
ChargesSafe ==
    /\ [](UsageSafe /\ TokensOnce)
    /\ FifoOrder

(***************************************************************************)
(* What operators change while the application runs: settings, and the     *)
(* keys that encrypt secrets.                                              *)
(***************************************************************************)
ConfigurationSafe ==
    /\ SettingsSafe
    /\ RotationSafe
=============================================================================
