----------------------------- MODULE MC_NutPpp -----------------------------
EXTENDS NutPpp
=============================================================================
