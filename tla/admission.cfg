\* Three runs compete for two slots through two concurrent handlers: enough
\* for duplicates, refusals, a run restarted while it unwinds and torn counts.
SPECIFICATION FairSpec
CONSTANTS
  Runs = {r1, r2, r3}
  Handlers = {h1, h2}
  MaxConcurrentRuns = 2
  HandlersPerRun = 8
  IncludeCounts = {TRUE, FALSE}
  Health = Health
  NoRequest = NoRequest
INVARIANTS IInv SlotsAreLiveRuns
PROPERTIES AnswersAreTrue ImplementsRunSlots CapacityComesBack
