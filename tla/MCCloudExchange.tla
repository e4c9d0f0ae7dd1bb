-------------------------- MODULE MCCloudExchange ---------------------------
(***************************************************************************)
(* A small instance of CloudExchange: two runs over one package, a package *)
(* that is over the budget, a context and a request that were written      *)
(* elsewhere, contexts written elsewhere that validation refuses, and      *)
(* answers that are good for one of several requests or differ from such   *)
(* an answer in one place.                                                 *)
(***************************************************************************)
EXTENDS CloudExchange, TLC

CONSTANTS run1, run2, task, set, sonnet, opus, ann, bob, provider,
          acct, other, id1, id2, long, claim, item1, item2, item3, garbage

Ref(source) == [source |-> source, set |-> set]
PackageOf(items) == [task |-> task, set |-> set, chain |-> task, items |-> items]
Items == {[id |-> item1, refs |-> {Ref(1)}],
          [id |-> item2, refs |-> {Ref(2)}]}
Whole == PackageOf(Items)
Large == PackageOf(Items \cup {[id |-> item3, refs |-> {Ref(2)}]})
MCPackage == {Whole, Large}

(* Whole has four units of content: the larger note is one too many. *)
MCBudget == {5}
MCNote == {1, 2}

Humans == Permutations(Human)

(* Half of the package, as nobody has admitted it, and a request of one    *)
(* run for what the other run is about.                                    *)
Half == CloudContext(run1, PackageOf({[id |-> item1, refs |-> {Ref(1)}]}), 5, 1)
MCOtherContext ==
  {Half, [Half EXCEPT !.disclosure = "DENY"], [Half EXCEPT !.note = 4]}
Crossed == [run |-> run2, model |-> sonnet,
            context |-> ContextIdentity(CloudContext(run1, Whole, 5, 1))]
MCOtherRequest == {[human |-> h] @@ Crossed : h \in Human}

AskedOf(context, model) ==
  [run |-> context.run, model |-> model, context |-> ContextIdentity(context)]
Asked(run, model) == AskedOf(CloudContext(run, Whole, 5, 1), model)
AnswerTo(q) ==
  LET p == [request |-> q, run |-> q.run, task |-> task, context |-> q.context,
            claims |-> {claim}, refs |-> q.context.refs,
            model |-> q.model, id |-> id1, attempt |-> 1, usage |-> 0]
  IN p @@ [declared |-> ProposalIdentity(p)]
Answer(run, model) == AnswerTo(Asked(run, model))

Delivered(raw, model, id) ==
  [raw |-> raw, provider |-> provider, model |-> model, id |-> id,
   account |-> acct, usage |-> 0, error |-> FALSE]
Good == Delivered(Answer(run1, sonnet), sonnet, id1)
Odd == Delivered(AnswerTo(Crossed), sonnet, id1)
Redeclared(p) == [p EXCEPT !.declared = ProposalIdentity(p)]
MCTransport ==
  {Good, Delivered(Answer(run2, sonnet), sonnet, id1),
   Delivered(Answer(run1, opus), opus, id1),
   Delivered(AnswerTo(AskedOf(Half, sonnet)), sonnet, id1),
   Odd, [Odd EXCEPT !.id = id2],
   [Good EXCEPT !.account = other], [Good EXCEPT !.model = opus],
   [Good EXCEPT !.error = TRUE], [Good EXCEPT !.usage = 1],
   [Good EXCEPT !.raw.id = id2, !.id = id2],
   [Good EXCEPT !.raw.id = long, !.id = long],
   [Good EXCEPT !.raw.model = opus],
   [Good EXCEPT !.raw.attempt = 2],
   [Good EXCEPT !.raw.claims = {}],
   [Good EXCEPT !.raw = Redeclared([@ EXCEPT !.run = run2])],
   [Good EXCEPT !.raw = garbage]}
=============================================================================
