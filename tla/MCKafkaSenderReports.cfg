\* Two goroutines whose appends read the same length are enough to lose one
\* index.
CONSTANT N = 2
SPECIFICATION Spec
INVARIANT AllFailuresReported
\* The call has returned.
CHECK_DEADLOCK FALSE
