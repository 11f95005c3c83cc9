--------------------------- MODULE MCReplayBuffer ----------------------------
EXTENDS ReplayBuffer

\* Key frames that are close together, and far apart; audio between them and at the
\* end.  The last two are given to a buffer that joins a running session.
MCStreams == {
  <<"key", "audio", "key", "video", "key", "audio", "key">>,
  <<"key", "video", "audio", "key", "key", "audio", "video">>,
  <<"key", "key", "audio", "video", "key", "video", "audio">>,
  <<"key", "audio", "video", "audio", "video", "audio", "key">>,
  <<"audio", "video", "key", "video", "key", "audio", "key">>,
  <<"video", "audio", "video", "audio", "key", "key">>
}
=============================================================================
