----------------------------- MODULE MCBoxCheck -----------------------------
EXTENDS BoxCheck

\* A defect for every way an item is found, masked, read again or not read.
MCDefects == {<<"cur", 2>>, <<"curTh", 1>>, <<"residual", 0>>}
=============================================================================
