SPECIFICATION FairSpec
CONSTANTS
  ann = ann
  Ann = Ann
  bea = bea
  Spelling = {ann, Ann, bea}
  Normalise <- MCNormalise
  Request = {r1, r2, r3}
  Nobody = Nobody
INVARIANTS
  OneUserPerAddress
  EveryUserHasWallet
  AnswersAreTrue
PROPERTIES
  EveryRegistrationEnds
  ImplementsDirectory
CHECK_DEADLOCK FALSE
