-------------------------- MODULE MCChannelClosing --------------------------
(* Small instances of ChannelClosing for TLC *)
EXTENDS ChannelClosing
=============================================================================
