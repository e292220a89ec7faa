\* One execution with a tool call.  The engine gives up a cancelled turn without
\* calls; tool-execute may hang.
SPECIFICATION FairSpec
CONSTANTS
    MaxModelCalls = 1
    Calls = {c1}
    Tools = {"timeline_search", "skill_get", "web", "mail"}
    MemoryTools = {"timeline_search"}
    SkillTools = {"skill_get"}
    Allowlists <- WebOnly
CHECK_DEADLOCK FALSE
INVARIANT AnswerCarriesTheRecords
PROPERTIES QuietAfterCleanUp ReportsFollowCalls LostLeaseEndsCallsAndRun
