--------------------------- MODULE MCClosedCapture ---------------------------
\* A backup, or a restore of the first or second transaction's content; three pages.
EXTENDS ClosedCapture

CONSTANTS p1, p2, p3

ThreePages == {p1, p2, p3}
\* The replay compares the rows on two of the pages; the third is free, or another table's.
TwoOfThree == {bytes \in [Pages -> 0..MaxTransactions] : bytes[p1] = bytes[p2]}

BackupOrRestore == {None, Content(1), Content(2)}
=============================================================================
