-------------------------- MODULE MCDependencyPin -------------------------
(***************************************************************************)
(* A small instance of DependencyPin: two trees of two folders, an MR-03   *)
(* invocation that needs one module and an MR-04 invocation that needs     *)
(* two, and modules of an older state of the first tree that may be loaded *)
(* already.  What may be added is a file that displaces nothing, an        *)
(* extension module that displaces one module, and a link to a directory   *)
(* that displaces another.                                                 *)
(***************************************************************************)
EXTENDS DependencyPin

MCModule == {"git", "adapter", "discovery", "context"}
MCAdded == {"note", "extension", "link", "bytecode"}
MCFolderOf ==
  [f \in MCModule \cup MCAdded |->
     IF f \in {"git", "link"} THEN Nothing
     ELSE IF f = "note" THEN "docs" ELSE "package"]
MCDisplaces ==
  [a \in MCAdded |-> IF a = "extension" THEN {"discovery"}
                     ELSE IF a = "link" THEN {"adapter", "context"} ELSE {}]
MCCallables == [k \in Kind |-> IF k = "mr03" THEN <<"adapter">>
                               ELSE <<"discovery", "context">>]

Frozen == [m \in MCModule |-> Good]
MCInitFiles ==
  {[t \in {"t1", "t2"} |-> IF t = "t1" THEN Frozen ELSE f] :
     f \in {Frozen, [Frozen EXCEPT !["context"] = Bad]}}

MCInitLoaded ==
  {[m \in MCModule |-> Nothing],
   [m \in MCModule |-> IF m = "context" THEN <<"t1", Bad>> ELSE Nothing]}
=============================================================================
