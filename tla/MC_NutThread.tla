---------------------------- MODULE MC_NutThread ----------------------------
EXTENDS NutThread
MCRegion == {[addr |-> 0, size |-> 11], [addr |-> 11, size |-> 4]}
=============================================================================
