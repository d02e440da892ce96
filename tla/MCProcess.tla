----------------------------- MODULE MCProcess ------------------------------
(* Two clients and one error of Accept, in every configuration.            *)
EXTENDS Process
=============================================================================
