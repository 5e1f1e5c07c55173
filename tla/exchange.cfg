SPECIFICATION Spec
CONSTANTS
    HandlerRejects <- MCHandlerRejects
INVARIANTS SuccessIsResult RetryIsSafe SilenceExplained RecordTruthful
