\* Three goroutines: two lost updates can meet, and a late store of the
\* length can hide an append that had already been counted.
CONSTANT N = 3
SPECIFICATION FairSpec
INVARIANT TypeOK
INVARIANT SlotFits
INVARIANT NoWriteAfterReturn
INVARIANT ReplyIsSound
INVARIANT SomeFailureReported
PROPERTY KeepsPromise
PROPERTY Returns
\* The call has returned.
CHECK_DEADLOCK FALSE
