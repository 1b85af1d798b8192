-------------------------------- MODULE MCShell --------------------------------
EXTENDS Shell

MCFiles ==
    {Absent, <<>>, <<"x">>, <<"x", CR, NL>>, <<Tab, NL, "x">>, <<"x", NL, NL, CR>>, <<"x", "x", NL, NL>>}
=================================================================================
