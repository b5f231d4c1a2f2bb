SPECIFICATION Spec
INVARIANTS HonestIsAccepted OnlyHonestIsAccepted BindTheSame ClaimsAreTrue
CONSTANTS KBits = 4
 KTail = 3
 KSums <- KXor
 KProducts <- KProduct
 GPows <- GPowTable
 WordBits = 4
 HashWords = 4
 NRounds = 1
 Rotations <- Rotations4
 Sigma <- Sigma1
 HashIV <- IV4
 ParamIV <- ParamIV4
 PinnedMeta <- Pinned2
 HashLog = 8
 LogSkip = 2
 MinBlocksLog = 1
 FixedChallenges <- Fixed2
 LogPacking = 2
 LogBatch = 6
 MinMu = 9
 MaxMu = 9
 InitialK = 6
 LevelKs <- Ks
 LogInvRates <- Rates
 OodSamples <- Oods
 Queries <- Queries3
 GrindingBits <- Grinding3
 CompositionShifts <- Shifts2
 LogInvRate = 1
 MinLogMem = 3
 MaxLogMem = 3
 MaxLogRows = 3
 Jobs <- MCJobs
