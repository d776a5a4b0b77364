-------------------------- MODULE MCDriverFrontend --------------------------
(***************************************************************************)
(* DriverFrontend for TLC: the tasks' unit is on an allowlist, or on it    *)
(* and denied as well.                                                     *)
(***************************************************************************)
EXTENDS DriverFrontend

CONSTANTS u1, u2, a1

MCUnitOf == [t \in Tasks |-> u1]

Policy(a, d) == [allowed |-> a, denied |-> d]

MCConfigs == {[addr |-> NoAddr, policy |-> Policy({{u1}}, {{u2}})],
              [addr |-> a1, policy |-> Policy({{u1}, {u2}}, {{u1}})]}
=============================================================================
