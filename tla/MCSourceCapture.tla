--------------------------- MODULE MCSourceCapture -------------------------
(***************************************************************************)
(* A small instance of SourceCapture: the path root/d/f, two directories   *)
(* that may be the root, two that may be d, two files that may be f, and a *)
(* second name in the first root.                                          *)
(***************************************************************************)
EXTENDS SourceCapture

MCRelativePath == <<"d", "f">>

MCFits ==
  [s \in {<<"out", "root">>, <<"r1", "d">>, <<"r2", "d">>, <<"r1", "new">>,
          <<"d1", "f">>, <<"d2", "f">>} |->
     CASE s = <<"out", "root">> -> {"r1", "r2", "link"}
       [] s = <<"r1", "d">> -> {"d1", "d2", "link"}
       [] s = <<"r2", "d">> -> {"d2"}
       [] s = <<"r1", "new">> -> {"x2"}
       [] s = <<"d1", "f">> -> {"x1", "x2", "d2", "link"}
       [] s = <<"d2", "f">> -> {"x1", "x2"}]

Tree(r, d, f, g) ==
  [s \in DOMAIN MCFits |->
     CASE s = <<"out", "root">> -> r
       [] s = <<"r1", "d">> -> d
       [] s = <<"d1", "f">> -> f
       [] s = <<"d2", "f">> -> g
       [] OTHER -> Nothing]

\* A file to capture, with a second version of directory d beside it; no
\* file; a directory or a link instead of it; no directory; a linked root.
MCInitEntries ==
  {Tree("r1", "d1", "x1", "x2"), Tree("r1", "d1", Nothing, "x1"),
   Tree("r1", "d1", "d2", "x1"), Tree("r1", "d1", "link", "x1"),
   Tree("r1", Nothing, "x1", "x2"), Tree("link", "d1", "x1", "x2")}

MCInitContents == {[f \in {"x1", "x2"} |-> IF f = "x1" THEN <<1, 1>> ELSE <<2>>]}
=============================================================================
