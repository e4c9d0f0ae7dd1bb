--------------------------- MODULE MCFinalEvidence -------------------------
(***************************************************************************)
(* Small instances of FinalEvidence.  Two final results cite one manifest  *)
(* hash, which two manifests with different bytes carry (the observational *)
(* metadata of a manifest is not part of its identity), and m3 is the      *)
(* manifest of persist_evidence.  Path "a" lies in the root itself, paths  *)
(* "b" and "c" in a directory below it.                                    *)
(***************************************************************************)
EXTENDS FinalEvidence

MCManifest == {"m1", "m2", "m3"}
MCFinal == {"f1", "f2"}
MCIdentity == {"hm", "hl", "h1", "h2"}
MCIdentityOf == [x \in MCManifest \cup MCFinal |->
                   CASE x \in {"m1", "m2"} -> "hm"
                     [] x = "m3" -> "hl"
                     [] x = "f1" -> "h1"
                     [] x = "f2" -> "h2"]
MCCites == [x \in MCFinal |-> "hm"]

MCPath == {"a", "b", "c"}
MCDirName == {"top", "sub"}
MCDirOf == [n \in MCPath |-> IF n = "a" THEN "top" ELSE "sub"]

\* r1 is the approved root and s1 its directory "sub"; s2 is an empty
\* directory something may be renamed to.
MCFolder == {"r1", "s1", "s2"}
MCInitDirAt == [x \in MCFolder \X MCDirName |->
                  IF x[2] = "top" THEN x[1]
                  ELSE IF x[1] = "r1" THEN "s1" ELSE None]

Both(m, n, x, l) == [manifest |-> m, mpath |-> n, final |-> x, fpath |-> l]
Alone(m, n) == [manifest |-> m, mpath |-> n, final |-> None, fpath |-> n]

\* Calls that get in each other's way: the same call twice, the same
\* destinations for other bytes or in the other order, one record at two
\* destinations, a manifest the result does not cite, and the manifest of
\* persist_evidence at the destination of a result.
MCRequest == {Both("m1", "a", "f1", "b"), Both("m2", "a", "f1", "b"),
              Both("m1", "b", "f2", "a"), Both("m1", "b", "f1", "c"),
              Both("m3", "a", "f1", "b"), Alone("m3", "b")}

\* Calls that agree on the destination of the manifest and of the result.
RaceRequest == {Both("m1", "a", "f1", "b"), Both("m2", "a", "f2", "b")}

\* For crashes and power failures: one call and its retry.
RetryRequest == {Both("m1", "a", "f1", "b"), Both("m1", "b", "f1", "c")}
=============================================================================
