SPECIFICATION Spec
CONSTANTS
    max_depth = 2
    digits10 = 3
    MaxTokens = 5
    MaxString = 3
    MaxSetting = 6
    MaxName = 4
    MaxPattern = 4
    MaxFormat = 5
    MaxMessage = 1
    NodeUrls <- SomeUrls
    Chains <- SomeChains
INVARIANTS JsonIsRead LogTextsAreRead ChainIsJudged
PROPERTIES LaterSortsLater
CHECK_DEADLOCK FALSE
