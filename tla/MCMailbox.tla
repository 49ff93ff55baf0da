----------------------------- MODULE MCMailbox -----------------------------
(***************************************************************************)
(* Instances of Mailbox for TLC.                                           *)
(***************************************************************************)
EXTENDS Mailbox

CONSTANTS m1, m2, m3, m4, alice, bob

\* All messages to one user, and one message to another.
ToAlice == [m \in Messages |-> alice]
ToBoth  == [m \in Messages |-> IF m = m4 THEN bob ELSE alice]
=============================================================================
