\* Every size up to MAX_BYTES; a word of 2^30 stands for size_t. The page
\* numbers are those of 32 - PAGE_SHIFT = 19 bits.
SPECIFICATION Spec
CONSTANTS
  Word = 1073741824
  Root = 32
  Leaf2 = 16384
  Interior = 128
  Leaf3 = 32
  Null = Null
  PrevStep = 50
  NextStep = 100
  From = 1
  To = 262144
  LongestText = 320
INVARIANTS
  SizesSound
  PageMapSound
  ExcerptsSound
PROPERTY ListsInOrder
\* The walk ends.
CHECK_DEADLOCK FALSE
