--------------------------- MODULE MCRTMPShutdown ---------------------------
EXTENDS RTMPShutdown

MCLengths == {1, 3}

\* Longer than CHUNK in the low latency mode, by LOW.
MCOneLength == {3}
=============================================================================
