----------------------------- MODULE MCSessionDb ------------------------------
\* Instances of SessionDb for TLC.
EXTENDS SessionDb
===============================================================================
