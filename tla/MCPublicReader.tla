--------------------------- MODULE MCPublicReader ---------------------------
EXTENDS PublicReader
=============================================================================
