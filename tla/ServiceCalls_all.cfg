SPECIFICATION FairSpec
CONSTANTS
  Workers = {w1}
  Syncers = {s1}
  Installations = {i1}
  MaxRetries = 1
  FullPages = 1
  JwtTTL = 3
  JwtWindow = 1
  TokenTTL = 3
  Buffer = 1
  Retries = 1
  Answers <- MCAnswers
INVARIANT TypeOK
INVARIANT CredentialsLast
INVARIANT RepeatsOnlyHidden
INVARIANT PostedOnWholeAnswers
PROPERTY CallsReturn
CHECK_DEADLOCK FALSE
