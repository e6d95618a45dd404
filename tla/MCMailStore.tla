----------------------------- MODULE MCMailStore -----------------------------
(* MailStore on a small instance: two sessions, up to three messages. *)
EXTENDS MailStore
CONSTANTS s1, s2
TwoSessions == {s1, s2}
OneSession == {s1}
=============================================================================
