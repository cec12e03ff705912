---------------------------- MODULE MCTwinsReset ----------------------------
(* One AQ40 instance and one of another raid; two room bugs.                   *)
EXTENDS TwinsReset
=============================================================================
