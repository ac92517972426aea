-------------------------- MODULE MCCommandJournal --------------------------
(* Two commands; a lost connection and two crashes.                        *)
EXTENDS CommandJournal

CONSTANTS m1, m2

=============================================================================
