----------------------------- MODULE MC_NutTcp -----------------------------
EXTENDS NutTcp

\* The client sends three segments and the server one.
MCQuota == (client :> 3) @@ (server :> 1)
=============================================================================
