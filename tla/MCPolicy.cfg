SPECIFICATION PolicySpec
CONSTANTS
  here = here
  there = there
  Blank = Blank
  Unset = Unset
  Agents = {here, there}
  Addresses <- MCAddresses
  Assets <- MCAssets
  Amounts <- MCAmounts
  Times <- MCTimes
  Weights <- MCWeights
  Explicit <- MCExplicit
  Configs <- MCConfigs
  Transactions <- MCTransactions
  ParseFloat <- MCParseFloat
  MaxCalls = 3
INVARIANTS
  RulesConsistent
  EnginesAgree
  AnswersAreRead
