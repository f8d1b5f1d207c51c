CONSTANTS
    m1 = m1
    m2 = m2
    btc = btc
    eth = eth
    timed = timed
    all = all
    Missions = {m1, m2}
    Symbols = {btc, eth}
    Closes = {timed, all}
    NoEntry = NoEntry
    Reconcilers = {r1}
    SymbolOf <- MCSymbolOf
    Qty <- MCQty
    CloseOf <- MCCloseOf
    Held <- MCHeld
    Gains <- MCGains
    Marks = {1}
    Fee = 1
    MaxFaults = 1
SPECIFICATION Spec
INVARIANTS SettledMeansClosed ReconciledResultIsOwn
PROPERTIES SettledOnce CoveredRowSettles
CHECK_DEADLOCK FALSE
