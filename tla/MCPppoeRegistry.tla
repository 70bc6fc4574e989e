--------------------------- MODULE MCPppoeRegistry ---------------------------
(* Model-checking instance of PppoeRegistry: three link ids (a template, a *)
(* static link and one id for an instance), two interfaces, two service    *)
(* names.  MCSlots is one slot in the run that exhausts the registry and   *)
(* two in the run that checks de-duplication across slots.                *)
EXTENDS PppoeRegistry, TLC

CONSTANTS p1, p2

MCLinks == {1, 2, 3}
MCTemplates == {1}
MCInitLinks == {1, 2}
OneSlot == {1}
TwoSlots == {1, 2}
\* The hook `set iface <name> <hook>` gives: divert, which the hook scan of
\* CreatePppoeNode looks at besides the default orphans, or lower, which
\* it does not.
DivertHook == {"divert"}
LowerHook == {"lower"}

\* Interfaces are only compared for equality, so p1 and p2 are symmetric.
PathSymmetry == Permutations({p1, p2})
=============================================================================
