------------------------------ MODULE MCDropbox ------------------------------
EXTENDS DropboxInv

SameUser == [p \in Procs |-> "al"]
TwoUsers == [p \in Procs |-> IF p = "r" THEN "bo" ELSE "al"]
OnlyFirst == [p \in Procs |-> IF p = "p" THEN {"f"} ELSE {}]
OneUnit == [f \in Files |-> 1]
TwoUnits == [f \in Files |-> 2]
FourUnits == [f \in Files |-> 4]
=============================================================================
