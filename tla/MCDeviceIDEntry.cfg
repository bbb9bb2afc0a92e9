CONSTANTS
  Base = 9
  Letters = 4
  Cased = 2
  KeySpace = 2048
  CompactLen = 4
  Groups = 2
  GroupLen = 3
  V4Space = 32
  V6Space = 131072
  V4Digits = 1
  V6Digits = 6
  V4Letters = 3
  V6Letters = 9
  Keys <- MCKeys
  Addresses <- MCAddresses
SPECIFICATION EntrySpec
CHECK_DEADLOCK FALSE
INVARIANTS
  CleanCopyUnderstood
  TypoNoticed
