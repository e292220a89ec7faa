\* Up to three calls in flight at once, of any tool, under every allowlist of at
\* most two entries; the turn may end at any moment.
SPECIFICATION Spec
CONSTANTS
    Calls = {c1, c2, c3}
    ThirdCall = c3
    Tools = {"timeline_search", "skill_get", "web", "mail"}
    MemoryTools = {"timeline_search"}
    SkillTools = {"skill_get"}
    Allowlists <- ShortAllowlists
CONSTRAINT TwoCallsOfMany
CHECK_DEADLOCK FALSE
INVARIANTS IInv RecordsAccountForCalls IdsAreUnique OnlyPermittedToolsRun
PROPERTY NothingSentAfterCancel
