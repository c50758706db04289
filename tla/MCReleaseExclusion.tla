------------------------- MODULE MCReleaseExclusion -------------------------
EXTENDS ReleaseExclusion, MCRelease
=============================================================================
