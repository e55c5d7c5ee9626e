\* A timeout and an interval, in half milliseconds.
SPECIFICATION TimersSpec
CONSTANTS
  Timeouts = {timeout}
  Intervals = {interval}
  Delays = {2}
  Grain = 2
  MaxScheduled = 3
INVARIANTS
  TicksAreKept
PROPERTIES
  NeverEarly
  TimersRun
