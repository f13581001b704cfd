---------------------------- MODULE MCMapFetch -----------------------------
EXTENDS MapFetch

MCHashes == {"h1", "h2"}
MCSize == [h \in MCHashes |-> IF h = "h1" THEN 2 ELSE 1]
\* Two root frames, then h1 is deleted on the device and one frame is enough.
MCManifest == << <<"h1", "h2">>, <<"h2">> >>
=============================================================================
