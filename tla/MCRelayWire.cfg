CONSTANTS
  Goroutines = {g1, g2}
  WordLen = 2
  SmallCap = 16
  MaxMessage = 18
  Magic = 40516
  Piece = 5
  MaxCuts = 1
  Keys <- MCKeys
  Sendings <- MCSendings
  Invitations <- MCInvitations
SPECIFICATION Spec
SYMMETRY Symmetry
CHECK_DEADLOCK FALSE
INVARIANTS
  MessagesIntact
  InvitationUnderstood
