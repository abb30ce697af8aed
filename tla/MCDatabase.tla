------------------------------- MODULE MCDatabase -------------------------------
\* Instances of Database for TLC.
EXTENDS Database
CONSTANTS alice
=============================================================================
