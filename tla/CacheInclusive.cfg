SPECIFICATION SpecBoth
CONSTANTS
  Configs <- MCConfigs
  CounterSize = 1
INVARIANT Inclusive
