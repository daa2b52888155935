---------------------------- MODULE MCPagedReads ----------------------------
EXTENDS PagedReads, TLC

ScannerSymmetry == Permutations(Scanners)
=============================================================================
