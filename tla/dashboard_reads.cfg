SPECIFICATION FairSpec
CONSTANTS
    x = x
    y = y
    interval = interval
    scrape = scrape
    Sagas = {x, y}
    Viewed = {x}
    Refreshes = {interval, scrape}
    MaxMoves <- MCMaxMoves
INVARIANT EndedPageHasNoCurrentStep
PROPERTY GaugesHeal
CHECK_DEADLOCK FALSE
