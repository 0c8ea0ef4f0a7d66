---- MODULE MCQueueClient ----
\* One heap of four slots and five processes: insertions up to a full and a
\* refused queue, deletions from heaps of one to four processes.
EXTENDS QueueClient
MCCpu == {0}
MCProc == {<<pid, 0>> : pid \in 1 .. 5}
====
