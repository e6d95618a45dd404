-------------------------- MODULE MCMessageService --------------------------
(* MessageService with two connections.                                    *)
EXTENDS MessageService
=============================================================================
