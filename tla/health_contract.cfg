\* TAKOS_AGENT_HEALTH_INCLUDE_COUNTS is not set, as by default.
SPECIFICATION Spec
CONSTANTS
  Runs = {r1}
  Handlers = {h1}
  MaxConcurrentRuns = 1
  HandlersPerRun = 8
  IncludeCounts = {FALSE}
  Health = Health
  NoRequest = NoRequest
INVARIANTS HealthCarriesCounts
