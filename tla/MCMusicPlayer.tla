---------------------------- MODULE MCMusicPlayer ----------------------------
(* The playlist MusicPlayer starts with in TLC's instance. *)
EXTENDS MusicPlayer

mc_first_songs == <<3, 1>>
=============================================================================
