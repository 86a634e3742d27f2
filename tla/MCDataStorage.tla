--------------------------- MODULE MCDataStorage ---------------------------
EXTENDS DataStorage
CONSTANTS heading, position, none
=============================================================================
