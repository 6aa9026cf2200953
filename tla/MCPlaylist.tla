----------------------------- MODULE MCPlaylist -----------------------------
(***************************************************************************)
(* Playlist with the bounds of the configuration.                          *)
(***************************************************************************)
EXTENDS Playlist

CONSTANTS s1, s2

\* The contents of the file: no playlist, or two songs in either order.
MCFiles == {NULL, <<s1, s2>>, <<s2, s1>>}

\* Songs are only compared.
SongSymmetry == Permutations({s1, s2})
=============================================================================
