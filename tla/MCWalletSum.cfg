\* Two credits at once.
CONSTANTS
    usd1 = usd1
    ngn2 = ngn2
    ngn1 = ngn1
    Currencies = {"USD", "NGN"}
    WalletIds <- OneId
    NoWallet = NoWallet
    Cur <- CurrencyOf
    Opening <- Funded
    Keys = {"none", "c1", "c2", "d2", "d3", "t:debit", "t:credit", "u:debit", "u:credit"}
    Requests = {"credit1", "credit2"}
    Plan <- PlanOf
SPECIFICATION Spec
INVARIANTS LedgerIsSum
CHECK_DEADLOCK FALSE
