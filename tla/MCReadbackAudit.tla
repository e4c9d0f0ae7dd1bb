--------------------------- MODULE MCReadbackAudit -------------------------
(***************************************************************************)
(* A small instance of ReadbackAudit: the manifest in the root itself, the *)
(* final result in a directory below it, a file of other bytes and a file  *)
(* not yet written, a second root and a second directory.                  *)
(***************************************************************************)
EXTENDS ReadbackAudit, TLC

MCManifest == <<"m">>
MCFinal == <<"d", "f">>
MCExpected == (MCManifest :> <<1>>) @@ (MCFinal :> <<2>>)

MCFits ==
  [s \in {<<"out", "root">>, <<"r1", "m">>, <<"r1", "d">>, <<"d1", "f">>,
          <<"d2", "f">>, <<"r1", "new">>} |->
     CASE s = <<"out", "root">> -> {"r1", "r2"}
       [] s = <<"r1", "m">> -> {"m1", "link"}
       [] s = <<"r1", "d">> -> {"d1", "d2"}
       [] s = <<"d1", "f">> -> {"f1", "f2", "d2"}
       [] s = <<"d2", "f">> -> {"f2"}
       [] s = <<"r1", "new">> -> {"f2"}]

Tree(m, f, g) ==
  [s \in DOMAIN MCFits |->
     CASE s = <<"out", "root">> -> "r1"
       [] s = <<"r1", "m">> -> m
       [] s = <<"r1", "d">> -> "d1"
       [] s = <<"d1", "f">> -> f
       [] s = <<"d2", "f">> -> g
       [] OTHER -> Nothing]

MCInitEntries == {Tree("m1", "f1", "f2"), Tree("m1", Nothing, "f1"),
                  Tree(Nothing, "f1", Nothing), Tree("m1", "f2", Nothing)}

MCInitContents ==
  {[f \in {"m1", "f1", "f2"} |->
      CASE f = "m1" -> <<1>> [] f = "f1" -> <<2>> [] f = "f2" -> c] :
     c \in {<<2>>, <<1>>}}
=============================================================================
