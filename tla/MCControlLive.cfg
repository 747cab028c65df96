SPECIFICATION FairSpec
CONSTANTS
    Call = {f, b}
    Background = {b}
    Concurrency = 1
    BackgroundConcurrency = 1
    Sub = {s, t}
    ById = {s}
    MaxAttempts = 2
    MayShut = TRUE
PROPERTIES CallSettles SubscriptionSettles FlappingExhausts
