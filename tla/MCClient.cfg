CONSTANTS
    Undef = Undef
SPECIFICATION MCSpec
CHECK_DEADLOCK FALSE
INVARIANTS ClientTypeOK   AcceptedIsRunnable QuestionsAreClosed
PROPERTIES ConnectionIsSound PassedOnce EventuallyDone
