------------------------- MODULE MCDeclarativeForm -------------------------
(* Small instances of DeclarativeForm for TLC: host, port, groups and roles *)
(* are fields of one form, a password and a checkbox of another.           *)
EXTENDS DeclarativeForm, TLC

CONSTANTS host, port, secret, flag, groups, roles, server, other

PagesOfFields == {{host, secret}, {host, port}, {flag, groups}, {flag, roles}}

SlotSymmetry == Permutations(SaveSlot)

FormOfField == [f \in Field |-> IF f \in {host, port, groups, roles} THEN server ELSE other]
KindOfField == [f \in Field |-> IF f \in {host, port, secret} THEN "text"
                               ELSE IF f = flag THEN "checkbox"
                               ELSE IF f = groups THEN "multi-select" ELSE "multi-checkbox"]
=============================================================================
