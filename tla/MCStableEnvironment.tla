------------------------ MODULE MCStableEnvironment ------------------------
EXTENDS StableEnvironment
=============================================================================
