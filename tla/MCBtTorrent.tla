------------------------------ MODULE MCBtTorrent ------------------------------
(* BtTorrent with two connections and two pieces of metadata.              *)
EXTENDS BtTorrent
=============================================================================
