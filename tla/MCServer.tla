------------------------------ MODULE MCServer ------------------------------
EXTENDS ServerStorage
=============================================================================
