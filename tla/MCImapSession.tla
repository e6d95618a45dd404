--------------------------- MODULE MCImapSession ---------------------------
(* Instances of ImapSession for TLC. *)
EXTENDS ImapSession
=============================================================================
