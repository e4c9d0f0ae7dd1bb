-------------------------- MODULE MCContextPipeline -------------------------
(***************************************************************************)
(* A small instance of ContextPipeline: three locators under two aliases,  *)
(* and arguments each of which one check of the code alone refuses, beside *)
(* those that pass.                                                        *)
(***************************************************************************)
EXTENDS ContextPipeline

CONSTANTS l1, l2, l3, home, away, few, many, empty, result

MCAliasOf == [l \in {l1, l2, l3} |-> IF l = l3 THEN away ELSE home]
MCSizeOf == [k \in {few, many, empty} |->
               IF k = few THEN 1 ELSE IF k = many THEN 3 ELSE 0]

(* Descriptors. *)
X == [id |-> [locator |-> l1, content |-> few, type |-> "LOCAL_FILE",
              available |-> TRUE, immutable |-> TRUE],
      kind |-> "TEXT"]
Y == [X EXCEPT !.id.locator = l2]
Z == [X EXCEPT !.id.locator = l3]
Renamed == [X EXCEPT !.kind = "BINARY"]
Changed == [X EXCEPT !.id.content = many]
Gone == [Y EXCEPT !.id.available = FALSE]
Mutable == [Y EXCEPT !.id.immutable = FALSE]
Manifest == [Y EXCEPT !.id.type = "MANIFEST"]
Empty == [X EXCEPT !.id.content = empty]

(* Tasks: one that requires nothing, one that requires X and a locator,    *)
(* one that requires a source outside its own aliases.                     *)
Open == [aliases |-> {home}, types |-> None, ids |-> {}, locators |-> {}]
Needing == [Open EXCEPT !.types = {"LOCAL_FILE"}, !.ids = {X.id},
                        !.locators = {l2}]
Impossible == [Open EXCEPT !.ids = {Z.id}]

Arg(task, candidates) ==
  [task |-> task, candidates |-> candidates, maxItems |-> 2, maxBytes |-> 3]

MCDiscoverArg ==
  {Arg(Open, <<X, Y>>), Arg(Open, <<X, Z, Z, X>>), Arg(Needing, <<X, Y>>),
   Arg(Impossible, <<X, Z>>), Arg(Needing, <<X, Gone>>),
   Arg(Needing, <<X, Manifest>>), Arg(Needing, <<X, Mutable>>),
   Arg(Open, <<X, Renamed>>), Arg(Open, <<X, Changed>>), Arg(Open, <<Z>>),
   Arg(Open, <<Empty>>), Arg(Open, <<Changed, Y>>),
   [Arg(Open, <<X, Y>>) EXCEPT !.maxItems = 1]}

(* Annotations: the first row is mandatory where it can be. *)
Note(classification, validity, supersession, mandatory) ==
  [classification |-> classification, validity |-> validity,
   supersession |-> supersession, mandatory |-> mandatory]
Public == Note("PUBLIC", "VALID", "NONE", TRUE)
Optional == [Public EXCEPT !.mandatory = FALSE]
Internal == Note("INTERNAL", "VALID", "NONE", FALSE)
Secret == Note("SECRET_LIKE", "VALID", "NONE", TRUE)
Superseded == Note("PUBLIC", "SUPERSEDED", "EXPLICIT_SUPERSEDED", FALSE)
Untold == Note("PUBLIC", "SUPERSEDED", "NONE", FALSE)

On(first, rest) == [l \in {l1, l2, l3} |-> IF l = l1 THEN first ELSE rest]
MCAnnotation ==
  {On(Public, Internal), On(Public, Secret), On(Superseded, Optional),
   On(Public, Optional),
   On(Public, Untold)}

MCChainArg ==
  {[missing |-> k, strays |-> FALSE] :
     k \in {{}, {"task"}, {"normalization"}, {"metrics"}, {"MR04_GUARD"}}}
  \cup {[missing |-> {}, strays |-> TRUE]}

(* Captured files: one that may go, and what differs from it. *)
Local == [captured |-> X, task |-> Open, note |-> Public, disclosed |-> "PUBLIC",
          maxBytes |-> 3, limit |-> 2]
MCLocalArg ==
  {Local, [Local EXCEPT !.captured = Z], [Local EXCEPT !.note = Internal],
   [Local EXCEPT !.note = Superseded], [Local EXCEPT !.disclosed = "INTERNAL"],
   [Local EXCEPT !.limit = 1], [Local EXCEPT !.captured = Changed],
   [Local EXCEPT !.captured = Changed, !.maxBytes = 2],
   [Local EXCEPT !.captured = Empty], [Local EXCEPT !.task = Needing],
   [Local EXCEPT !.task.ids = {X.id}]}

=============================================================================
