---------------------------- MODULE MC_SchemaBoot ----------------------------
(* Two replicas of a rolling deployment: the released binary (two            *)
(* migrations), the one before it, one whose second file was edited, and one *)
(* whose files are numbered 0 and 2; a schema that is new, pre-created,      *)
(* another instance's or commented by hand, and a ledger that is empty or    *)
(* has a hole in it (one behind is what the previous binary leaves).         *)
EXTENDS SchemaBoot, TLC

CONSTANTS r1, r2, a, b

File(v, c)  == [version |-> v, checksum |-> c]
Binary(i, files) ==
    [instance |-> i, reserved |-> FALSE, servable |-> TRUE, files |-> files]

Released == {File(1, "x"), File(2, "y")}
Previous == {File(1, "x")}
Edited   == {File(1, "x"), File(2, "z")}
Gapped   == {File(0, "x"), File(2, "y")}

MCConfigs == {Binary(a, f) : f \in {Released, Previous, Edited, Gapped}}
MCLedgers == {<<>>, 2 :> "y"}

===============================================================================
