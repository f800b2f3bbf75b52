\* Two processes that share one file of the cache, with the attempts of the code.
CONSTANTS
  Processes = {p1, p2}
  Attempts = 4
SPECIFICATION Spec
INVARIANT GivenAsHashed
PROPERTY EveryCallIsAnswered
