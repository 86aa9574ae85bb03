--------------------------- MODULE MCIntegrations ---------------------------
(***************************************************************************)
(* Integrations for TLC: orders are interchangeable, and the tasks make    *)
(* two ticks together, or one of them makes more.                          *)
(***************************************************************************)
EXTENDS Integrations

CONSTANTS inventory, master

MCFeed == {inventory, master}
MCSkipsEmpty == {inventory}

OrderSymmetry == Permutations(Orders)

FewTicks ==
  \/ ticks + tick[inventory] + tick[master] <= 2
  \/ ticks = 0 /\ (tick[inventory] = 0 \/ tick[master] = 0)
  \/ tick[inventory] = 0 /\ tick[master] = 0

=============================================================================
