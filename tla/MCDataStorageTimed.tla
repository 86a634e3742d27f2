------------------------- MODULE MCDataStorageTimed -------------------------
EXTENDS DataStorageTimed
CONSTANTS heading, none

NoRace == raced = {}

\* The instance keeps the pace that the theorems suppose.
ASSUME PaceKept == Paced
=============================================================================
