---------------------------- MODULE AtomicSwitch ----------------------------
(***************************************************************************)
(* What switching a tool promises: one choice, and for each account the    *)
(* home its grant lives in, change together in one step.  The chosen       *)
(* account lives in the home the tool reads, and no other account does.    *)
(***************************************************************************)
CONSTANTS
  Managed,  \* the accounts; each names its own home
  Active,   \* the home the tool reads
  Gateway,  \* the choice of no account
  None      \* nothing chosen yet

VARIABLES
  chosen,  \* what the tool was switched to
  home     \* where each account's grant lives

vars == <<chosen, home>>

\* Every account at its own home, but for the chosen one.
Settled(c) == [a \in Managed |-> IF a = c THEN Active ELSE a]

\* At first the tool may be signed in to an account nobody chose.
Init ==
  /\ chosen = None
  /\ \E c \in Managed \cup {None} : home = Settled(c)

\* A switch to an account or a gateway, or the first switch taken back.
Switch ==
  /\ chosen' \in Managed \cup {Gateway, None}
  /\ home' = Settled(chosen')

Next == Switch

Spec == Init /\ [][Next]_vars
=============================================================================
