SPECIFICATION Spec
CONSTANTS
  Wallets = {alice, bob}
  NoWallet = NoWallet
  ChallengeTTL = 1
  SessionTTL = 2
  ClockSkew = 0
  ChallengeLimit = 2
  Window = 2
  MaxEvents = 9
  MaxChallenges = 6
  MaxSyncs = 2
  PageBound = 3
SYMMETRY Symmetry
ACTION_CONSTRAINT Bounded
INVARIANT
  TypeOK
  SignInIsCurrent
  BalanceIsOfSession
  SessionsWereSigned
  BurstBounded
\* A page whose wallet and clock have stopped may have nothing left to do.
CHECK_DEADLOCK FALSE
