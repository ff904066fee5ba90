SPECIFICATION FairLatchSpec
CONSTANTS Thread <- Threads MaxReaders = 4
INVARIANTS Exclusion NoLostWakeup
PROPERTY EnteredWriterWrites
