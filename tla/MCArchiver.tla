------------------------------ MODULE MCArchiver ------------------------------
EXTENDS Archiver, TLC

\* One size gives a file with the areas of one header, the other a larger one.
TwoSizes == {2, 3}

=============================================================================
