------------------------------ MODULE MCOutbox ------------------------------
(***************************************************************************)
(* Small instances of Outbox.                                              *)
(***************************************************************************)
EXTENDS Outbox

(* The inbox is always there and its name sorts first.                      *)
MCChannels == <<"local-inbox", "webhook">>
=============================================================================
