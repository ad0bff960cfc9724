\* Two sessions in one engine: clients served, gateways asked, or one of each.
CONSTANTS
  MaxFriends = 2
  MaxNonces = 1
  MaxListed = 2
  MaxServed = 2
  MaxAsked = 2
  MaxSessions = 2
SPECIFICATION Spec
INVARIANTS TypeOK  ExactWhenAlone WholeAnswers
CHECK_DEADLOCK FALSE
