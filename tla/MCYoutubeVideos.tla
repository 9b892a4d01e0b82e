-------------------------- MODULE MCYoutubeVideos --------------------------
(***************************************************************************)
(* Small instances of YoutubeVideos for TLC: one video that two playlists  *)
(* list, and two videos of one playlist.                                   *)
(***************************************************************************)
EXTENDS YoutubeVideos

CONSTANTS v1, v2, p1, p2

AllOrNothing == {{}, Videos}
Everything == {Videos}
=============================================================================
