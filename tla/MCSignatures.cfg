SPECIFICATION MCSpec
INVARIANTS WhatIsSignedVerifies ReturnedSignersVerify OneInputPerTweak EveryClaimIsBacked AggregatesAsAsked
CONSTANTS
    LogLifetime = 3
    Chains = 2
    ChainLength = 3
    TargetSum = 2
    MaxRandomizerTrials = 2
    Messages <- MCMessages
    Thread = {t1, t2}
    MaxCalls = 3
    DigitsOf <- XmssDigits
    Heights <- TreeHeights
    FtsHeight = 2
    FtsTrees = 2
    OtsChains = 2
    OtsLength = 3
    OtsSum = 2
    MaxDigestAttempts = 2
    MaxEncodingAttempts = 3
    SphincsMessages <- ManyMessages
    OtsDigitsOf <- OtsDigits
    IndicesOf <- SphincsIndices
    Process = {p1, p2}
    MaxSigners = 2
    MaxFailures = 2
    Kind = {"xmss", "sphincs"}
    StaleFrom = 2
    MaxKeys = 8
    MaxEpochs = 2
    MaxRecursions = 2
    MaxDaRoots = 1
    XmssSigned <- XmssClaims
    SphincsSigned <- SphincsClaims
    Unsigned <- UnsignedClaims
    Codewords = {1, 2}
    Calls <- AggregateCalls
    Advice <- OwnHints
    Plots <- OwnPlots
    MaxNodes = 3
    MaxForeign = 2
CHECK_DEADLOCK FALSE
