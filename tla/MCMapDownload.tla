----------------------------- MODULE MCMapDownload -----------------------------
\* An instance of MapDownload for TLC.
EXTENDS MapDownload
CONSTANTS alice, bob
=============================================================================
