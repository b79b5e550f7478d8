\* One login with two providers, the defaults of the code, in seconds.
SPECIFICATION ChainFairSpec
CONSTANTS
  Providers = 2
  MaxRetries = 3
  Guard = 90
INVARIANTS UnsolvableMeansAllAsked
PROPERTIES Settles
\* A login is over when it has ended.
CHECK_DEADLOCK FALSE
