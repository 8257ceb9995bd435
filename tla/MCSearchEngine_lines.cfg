\* B and a stand on two lines and are indexed as one word.
SPECIFICATION Spec
CONSTANTS
  Letters <- MCLetters
  Digits = {"1"}
  Dot = "."
  OtherAscii <- MCOtherAscii
  Separators <- MCSeparators
  Undecodable = "bad"
  Dict <- MCDict
  MinWeight <- MCMinWeight
  UserSingles = {}
  MaxWordLength = 4
  StartProb <- MCStart
  TransProb <- MCTrans
  EmitProb <- MCEmit
  PrevStep = 1
  NextStep = 2
  Cut <- CutString
  Sites <- OneSite
  Queries <- LineQueries
  LowerCase <- MCLower
  OpenTag = "<"
  CloseTag = ">"
  OpenTitle = "<title>"
  CloseTitle = "</title>"
  Newline = "nl"
  Blank = " "
  Sep = "sep"
  UrlHead = "https:"
  NoSite = NoSite
INVARIANT LinesKeepWordsApart
