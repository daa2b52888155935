--------------------------- MODULE MCIncidentScan ---------------------------
EXTENDS IncidentScan, TLC

Medium == [outcome |-> "degraded", severity |-> "medium"]
High == [outcome |-> "degraded", severity |-> "high"]
Healthy == [outcome |-> "healthy", severity |-> NoSeverity]
Watch == [outcome |-> "watch", severity |-> NoSeverity]

FindingsAll == {Medium, High, Healthy, Watch}
FindingsTwo == {Medium, Healthy}

ScannerSymmetry == Permutations(Scanners)
=============================================================================
