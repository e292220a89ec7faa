\* One execution with two model calls.  It comes to an end and nothing follows:
\* no deadlock check.  The engine gives up a cancelled turn; RPCs time out.
SPECIFICATION FairSpec
CONSTANT MaxModelCalls = 2
CHECK_DEADLOCK FALSE
INVARIANTS IInv AnswerBeforeCompleted AnswerXorExplanation EndedIsReported
PROPERTIES NoRenewalForDeadRun ImplementsRunContract OnlyTheTurnMayHang
