SPECIFICATION LiveSpec
CONSTANTS
  render = render
  tree = tree
  sync = sync
  tick = tick
  Jobs <- MCJobs
  Workers <- MCWorkers
  Repeating <- MCRepeating
  Immediate <- MCImmediate
  Configured <- MCConfigured
  Nothing = Nothing
INVARIANTS
  TypeOK
  ChildrenHoldSlots
  NobodyWaitsInVain
PROPERTIES
  NothingStartsAfterStop
  StopLeavesNothing
  StopsEnd
