SPECIFICATION Spec
CONSTANTS
    usd = usd
    eur = eur
    New <- MCNew
    Existing <- MCExisting
    Ledgers <- MCLedgers
    HalfWindow = 1
    Epsilon = 1
    NoAccount = NoAccount
    Currencies = {usd, eur}
    NoCurrency = NoCurrency
    None = None
INVARIANTS
    PairsAreWhole
    NoneLeftOver
PROPERTIES
    PairedForGood
    NearestClaimed
\* The pairing ends.
CHECK_DEADLOCK FALSE
