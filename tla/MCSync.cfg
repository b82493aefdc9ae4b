SPECIFICATION Spec
CONSTANTS Inputs <- MCInputs
 Fee <- MCFee
 Weight <- MCWeight
 Order <- MCOrder
 Coins <- MCCoins
 Outputs = {0, 1}
 Boost = 5
 Boostable = {2}
 ProtectAbove = 2
 MaxMoves = 2
 Slice = 2
 SaveEvery = 1
 Start <- MCStart
 MaxFaults = 1
INVARIANTS ClustersFollowTheCache RelativesAreRight TransactionsAreTold SpendMapIsCurrent MinedStaysOut
