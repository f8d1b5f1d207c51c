CONSTANTS
    m1 = m1
    m2 = m2
    btc = btc
    eth = eth
    timed = timed
    all = all
    Missions = {m1, m2}
    Symbols = {btc, eth}
    Closes = {}
    NoEntry = NoEntry
    Reconcilers = {r1}
    SymbolOf <- MCSymbolOf
    Qty <- MCQty
    CloseOf <- MCNoCloses
    Held <- MCHeld
    Gains <- MCGains
    Marks = {1}
    Fee = 1
    MaxFaults = 0
SPECIFICATION Spec
INVARIANT ResultIsOfThisPosition
CHECK_DEADLOCK FALSE
