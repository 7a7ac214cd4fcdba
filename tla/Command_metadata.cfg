SPECIFICATION Spec
CONSTANTS
  Words <- MCWords
  Names <- MCNames
  Hosted <- MCHosted
  Tokens <- MCTokens
  Tag <- MCTag
  Asset <- MCAsset
  Calls <- PruneCalls
  MaxEvents = 0
PROPERTIES OnlyGoneRemoved
