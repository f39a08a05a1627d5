--------------------------- MODULE MCLongPolling ---------------------------
EXTENDS LongPolling
CONSTANTS r1, r2

\* Payloads 2 to 5 in two bits: r1 wants one of the two payloads of a bit,
\* r2 wants all.
TwoReaders == {r1, r2}
TheFilters == [r \in TwoReaders |-> IF r = r1 THEN [from |-> 0, to |-> 2]
                                              ELSE [from |-> 2, to |-> 9]]
TheBatches == {<<2>>, <<4, 3>>}
TheLogs == {<<>>, <<3>>}
=============================================================================
