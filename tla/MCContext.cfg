SPECIFICATION Spec
CONSTANTS
  c1 = c1
  c2 = c2
  fresh = fresh
  old = old
  dec = dec
  tea = tea
  Tea = Tea
  milk = milk
  Entities <- MCEntities
  About <- MCAbout
  Titles <- MCTitles
  NormalOf <- MCNormalOf
  CharactersOf <- MCCharactersOf
  WordsOf <- MCWordsOf
  CharactersPerToken = 4
  WordsPerToken = 1
  Profiles <- MCProfiles
  LimitOf <- MCLimitOf
  Default = "MEDIUM"
  Sections <- AllSections
  KeptPerSection = 3
  Results <- MCResults
INVARIANT ContextIsReference
PROPERTY OptimizeSettles
CHECK_DEADLOCK TRUE
