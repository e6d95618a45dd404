--------------------------- MODULE MCMailFolders ---------------------------
(* Two sessions of a user who has the root, an inbox, and can have a folder *)
(* below the inbox.                                                         *)
EXTENDS MailFolders, TLC
CONSTANTS s1, s2
TwoSessions == {s1, s2}
Symmetry == Permutations(TwoSessions)
Words == {"user", "", "inbox", "a", "play"}
NewUser == <<"inbox">>
SomePaths == {<<"">>, <<"inbox">>, <<"inbox", "a">>}
SomeNames == {<<"user", "inbox">>, <<"play", "user", "inbox">>}
=============================================================================
