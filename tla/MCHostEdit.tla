------------------------------ MODULE MCHostEdit ------------------------------
(* Instances of HostEdit for TLC: all channels.                            *)
EXTENDS HostEdit

AllChannels == {"edit", "text", "print"}

=============================================================================
