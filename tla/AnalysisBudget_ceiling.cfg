SPECIFICATION Spec
CONSTANTS
    market = market
    news = news
    critic = critic
    NewsAgent = news
    Meta = meta
    MaxRetries = 1
    MaxAttempts = 4
    MaxTokens = 7
    PerAttempt = 2
    MaxConcurrent = 2
    Enough = 2
    Exchanges = {"answered", "limited"}
CONSTANT Order <- Canonical
INVARIANT CeilingHolds
