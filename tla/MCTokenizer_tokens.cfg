SPECIFICATION TextSpec
CONSTANTS
  Letters <- MCLetters
  Digits = {"1"}
  Dot = "."
  OtherAscii <- MCOtherAscii
  Separators <- MCSeparators
  Undecodable = "bad"
  Dict <- MCDict
  MinWeight <- MCMinWeight
  UserSingles = {"ji"}
  MaxWordLength = 4
  StartProb <- MCStart
  TransProb <- MCTrans
  EmitProb <- MCEmit
  Runes = {"a", "1", ".", " ", "stop", "yun", "ji", "suan"}
  MaxLen = 5
INVARIANTS
  CutKeepsText
  CutIsLocal
  HeaviestPath
  BestStates
\* The walk ends.
CHECK_DEADLOCK FALSE
