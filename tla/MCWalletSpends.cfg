\* Debits and a credit on one wallet, some repeated while they may still run.
CONSTANTS
    usd1 = usd1
    ngn1 = ngn1
    ngn2 = ngn2
    Currencies = {"USD", "NGN"}
    WalletIds <- OneId
    NoWallet = NoWallet
    Cur <- CurrencyOf
    Opening <- Funded
    Keys = {"none", "c1", "c2", "d2", "d3", "t:debit", "t:credit", "u:debit", "u:credit"}
    Requests = {"credit1", "repeat1", "debit2", "redebit2", "debit3"}
    Plan <- PlanOf
SPECIFICATION Spec
INVARIANTS TypeOK OncePerKey BalancesAgree
CHECK_DEADLOCK FALSE
