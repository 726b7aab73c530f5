\* Three overlapping hits and two more after them: a budget of one, blocks of one
\* and two ticks, a memory that outlasts them, one crash.
SPECIFICATION RatesFairSpec
CONSTANTS
  Hits = {h1, h2, h3}
  Budget = 1
  Window = 2
  Base = 1
  Longest = 2
  Memory = 3
  Rounds = 2
  Crashes = 1
CHECK_DEADLOCK FALSE
INVARIANT RatesInv
PROPERTY NoTrace
