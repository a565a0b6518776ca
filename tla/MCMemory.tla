------------------------------- MODULE MCMemory -------------------------------
EXTENDS Memory

MCFrames == ReservedPages .. (TotalPages - 1)
===============================================================================
