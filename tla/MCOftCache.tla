----------------------------- MODULE MCOftCache -----------------------------
EXTENDS OftCache
=============================================================================
