----------------------------- MODULE Resolution -----------------------------
(***************************************************************************)
(* What resolving a document means: every parent resolved for itself, the  *)
(* results put over one another in order, the document on top.  A reader   *)
(* of Resolver, which keeps one document for all of them, a stack and      *)
(* marks, must come to the same.                                           *)
(***************************************************************************)
EXTENDS Resolver

Cycle == [ends |-> "failed_precondition"]
Missing == [ends |-> "not_found"]
Ok(slots) == [ends |-> "ok", slots |-> slots]

\* The terms in the order they first appear, each as it was defined last; the
\* items in the order they last appear; the text given last.
Over(over, under) ==
  LET terms == under.terms \o over.terms
      rules == under.rules \o over.rules
      firsts == {i \in DOMAIN terms : \A j \in DOMAIN terms : j < i => terms[j].term # terms[i].term}
      lasts == {i \in DOMAIN rules : \A j \in DOMAIN rules : i < j => rules[j] # rules[i]}
      first == Places(terms, firsts)
      Newest(t) == terms[Max({j \in DOMAIN terms : terms[j].term = t})]
  IN [terms |-> [i \in DOMAIN first |-> Newest(first[i].term)],
      rules |-> Places(rules, lasts),
      goals |-> IF over.goals = {} THEN under.goals ELSE over.goals]

Close(doc, under) == IF under.ends = "ok" THEN Ok(Over(doc.slots, under.slots)) ELSE under

-----------------------------------------------------------------------------
Ref(p) == [org |-> p.org, name |-> p.name]
KeyOf(p) == [org |-> p.org, name |-> p.name, version |-> p.version]

\* The version a parent is pinned to, if the caller may read it.
Found(p) == UNION {RowsOf(f, p.version) : f \in Readable(p.org, p.name)}

PinnedKeys == {KeyOf(p) : p \in UNION {ToSet(v.extends) : v \in versions}}
Named == UNION {ToSet(v.excludes) : v \in versions}

\* The first parents of a document, as many as at says: below the parents in path
\* and without the frames in without.
Context ==
  {x \in [doc : versions, at : Nat, path : SUBSET PinnedKeys, without : SUBSET Named] :
     x.at <= Len(x.doc.extends)}

Parents(doc, path, without) ==
  [doc |-> doc, at |-> Len(doc.extends), path |-> path, without |-> without \cup ToSet(doc.excludes)]

\* What they come to, put over one another, or how they fail.
Under[x \in Context] ==
  IF x.at = 0 THEN Ok(Empty)
  ELSE LET p == x.doc.extends[x.at]
           before == Under[[x EXCEPT !.at = @ - 1]]
           doc == CHOOSE v \in Found(p) : TRUE
           over == Close(doc, Under[Parents(doc, x.path \cup {KeyOf(p)}, x.without)])
       IN IF before.ends # "ok" \/ Ref(p) \in x.without THEN before
          ELSE IF KeyOf(p) \in x.path THEN Cycle
          ELSE IF Found(p) = {} THEN Missing
          ELSE IF over.ends # "ok" THEN over
          ELSE Ok(Over(over.slots, before.slots))

Resolution(doc) == Close(doc, Under[Parents(doc, {}, {})])

\* What a request to resolve is answered when nothing happens meanwhile.
Answer ==
  LET Wanted(f) == IF call.version = NoVersion THEN f.latest ELSE call.version
      found == UNION {RowsOf(f, Wanted(f)) : f \in Readable(call.org, call.name)}
  IN IF found = {} THEN Missing ELSE Resolution(CHOOSE v \in found : TRUE)

-----------------------------------------------------------------------------
\* The walk with one accumulator, a stack and marks (mergeParents) comes to what
\* resolving each parent for itself and merging the results would: the same
\* slots in the same order, a cycle exactly where there is one, and no other
\* error.  While others publish it still does, but for a parent's version that
\* came too late; only a delete can make it differ.
ResolvedByDefinition ==
  [][Resolved =>
       /\ since = "nothing" =>
            /\ reply' = Answer.ends
            /\ reply' = "ok" => acc' = Answer.slots
       /\ since = "publish" =>
            /\ reply' = "ok" => Ok(acc') = Resolution(Root)
            /\ reply' = "failed_precondition" => Resolution(Root) = Cycle
    ]_vars

=============================================================================
