-------------------------------- MODULE MCFiles --------------------------------
EXTENDS Files

MCForeign == {{}, {4}}
MCSpares == {-1, 3, NClusters}
=================================================================================
