----------------------------- MODULE MCClavier -----------------------------
(* Instances of the keypad menus for TLC. *)
EXTENDS Clavier

\* What an uninitialised minutes may hold: zero, the value that means "given
\* up", one too large, one that the digits may bring to -1.
MinutesInitiales == {0, -1, 100, -21}
=============================================================================
