SPECIFICATION MCSpec
CONSTANTS
  Words <- MCWords
  Names <- MCNames
  Hosted <- MCHosted
  Tokens <- MCTokens
  Tag <- MCTag
  Asset <- MCAsset
  Calls <- MCCalls
  MaxEvents = 1
INVARIANTS TypeOK DryRunForetells BackedUp TokensFirst
PROPERTIES RemovalsAreRight UserConfigKept
