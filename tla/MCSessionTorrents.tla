-------------------------- MODULE MCSessionTorrents --------------------------
(* Two connections that arrive for one hash, and so two torrents at most;  *)
(* connections and torrents are alike.                                     *)
EXTENDS SessionTorrents, TLC

Alike == Permutations(Conns) \cup Permutations(Torrents)
=============================================================================
