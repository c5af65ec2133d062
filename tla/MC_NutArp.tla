----------------------------- MODULE MC_NutArp -----------------------------
EXTENDS NutArp
=============================================================================
