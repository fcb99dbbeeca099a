\* Transfers in opposite directions, one of them repeated, which wait for each
\* other; the second wallet does not exist yet, and may be created twice.
CONSTANTS
    usd1 = usd1
    ngn1 = ngn1
    ngn2 = ngn2
    Currencies = {"USD", "NGN"}
    WalletIds <- ThreeIds
    NoWallet = NoWallet
    Cur <- CurrencyOf
    Opening <- Funded
    Keys = {"none", "c1", "c2", "d2", "d3", "t:debit", "t:credit", "u:debit", "u:credit"}
    Requests = {"toNGN", "retoNGN", "toUSD", "openNGN"}
    Plan <- PlanOf
SPECIFICATION FairSpec
INVARIANTS TransferWhole
PROPERTIES Finishes ExactlyOnce
CHECK_DEADLOCK FALSE
