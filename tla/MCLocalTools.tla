---------------------------- MODULE MCLocalTools ----------------------------
(* Two runs of a tool, three versions, three target files with the forms that *)
(* matter to the line scanner, two hosts at two authorities.                  *)
EXTENDS LocalTools

MCVersion == {<<1, 9, 9>>, <<1, 10, 0>>, <<2, 0, 0>>}
MCInstalled == <<1, 9, 9>>

MCTargets == <<"hooks", "features", "skill">>
MCHooks == {<<"none", "r1">>}
MCConfigs == {<<"features", "line", "table", "off">>, <<"features", "off", "table", "on">>,
              <<"features", "odd">>, <<"dotted">>}

MCValid == {<<"t1", "a1">>, <<"t3", "a1">>, <<"t2", "a2">>}
MCConfigured == {[h \in Host |-> IF h = "h1" THEN "none" ELSE a] : a \in {"a1", "none"}}
=============================================================================
