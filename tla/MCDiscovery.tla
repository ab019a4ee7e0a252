----------------------------- MODULE MCDiscovery -----------------------------
EXTENDS Discovery

CONSTANTS s1, s2
MCSeederList == <<s1, s2>>
=============================================================================
