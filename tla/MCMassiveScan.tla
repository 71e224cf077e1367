--------------------------- MODULE MCMassiveScan ---------------------------
EXTENDS MassiveScan

\* Three repositories, one of them of the reference set.
MCHits == <<<<"o", "/", "a">>, <<"o", "/", "b">>, <<"o", "/", "c">>, <<"o", "/", "ref">>>>
MCReference == {<<"o", "/", "ref">>}

\* One whose name has "__" in it.
UnderscoreHits == <<<<"o", "/", "a", "__", "b">>>>
NoReference == {}
=============================================================================
