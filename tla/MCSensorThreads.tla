--------------------------- MODULE MCSensorThreads ---------------------------
EXTENDS SensorThreads
=============================================================================
