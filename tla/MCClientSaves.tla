---------------------------- MODULE MCClientSaves ----------------------------
EXTENDS ClientSaves
=============================================================================
