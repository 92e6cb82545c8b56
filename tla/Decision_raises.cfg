SPECIFICATION Spec
CONSTANTS
  None = None
  Prompts <- MCPrompts
  Token <- MCToken
  Found <- MCFound
  HarmlessPairs <- MCHarmlessPairs
  Word <- MCWord
  Words <- MCWords
  Within <- MCWithin
  Fact <- MCFact
  Facts <- MCFacts
  Number = {2}
  Digits <- MCDigits
  LegalSubjects = {}
  OppositePairs <- MCPairs
  Negatable = {"safe"}
  PrefixPairs <- MCPrefix
  Entries <- MCEntries
  CachedPrompt <- MCCachedPrompt
  Affinity <- MCAffinity
  Scores = {840, 900, 990, 995}
  Cosines = {899, 900}
  Checkpoints = {850}
  Configs <- MCConfigs
  Failures = {"transient", "fatal"}
  TopK = 2
INVARIANT DetectorAnswers
