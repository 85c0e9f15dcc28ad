CONSTANT ByteBits = 1
CONSTANT CallerSavedFree <- MCCallerSavedFree
CONSTANT CalleeSaved <- MCCalleeSaved
CONSTANT Functions <- MCFunctions
SPECIFICATION Spec
INVARIANT ApartWhenLive
PROPERTY CoalescingSafe EveryStepCounts
