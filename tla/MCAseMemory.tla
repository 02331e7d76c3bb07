---------------------------- MODULE MCAseMemory ----------------------------
EXTENDS AseMemory

CONSTANTS rd, wr
=============================================================================
