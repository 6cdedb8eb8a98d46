---------------------------- MODULE MCTemplates ----------------------------
(***************************************************************************)
(* An instance of Templates for TLC.                                       *)
(***************************************************************************)
EXTENDS Templates

CONSTANT NoDoc   \* content that does not parse

-----------------------------------------------------------------------------
(* The instance: one slot of each kind.                                    *)

MCSlotTable == <<"terminology", "rules", "goals">>
MCKindOf == [k \in {"terminology", "rules", "goals"} |->
               CASE k = "terminology" -> "terms" [] k = "rules" -> "list" [] k = "goals" -> "prose"]
MCHeadingOf == [k \in {"terminology", "rules", "goals"} |->
               CASE k = "terminology" -> "Terminology" [] k = "rules" -> "Rules" [] k = "goals" -> "Goals"]
MCPiece == STRING
MCFrameName == {"n"}

OneLine(w) == <<<<w>>>>
Slots(terms, rules, goals) ==
  [k \in {"terminology", "rules", "goals"} |->
     CASE k = "terminology" -> terms [] k = "rules" -> rules [] k = "goals" -> goals]

Blanks == <<<<Indent>>>>
Term(t, d) == [term |-> <<t>>, definition |-> d]

Shared == [name |-> "n", description |-> "d", version |-> <<"1", ".0">>, visibility |-> "shared"]

\* Empty; of blanks and an unfinished term; full, over several lines, with lines
\* of spaces, a line that looks like a heading and one that looks like an item;
\* with what does not come back.
Bare == Slots(<<>>, <<>>, EmptyText)
Hollow == Slots(<<>>, <<OneLine("w2")>>, Blanks)
Full == Slots(<<Term("w1", <<<<"w2">>, <<Indent>>, <<Bullet, "w3">>>>), Term("w4", OneLine("w1"))>>,
              <<<<<<"w1">>, <<Heading, "Goals">>, <<Indent>>, <<Bullet, "w2">>>>, <<<<Indent>>, <<"w3">>>>>>,
              <<<<"w4">>, <<>>, <<Bullet, "w5">>>>)
Gap == Slots(<<>>, <<OneLine("w1"), Blanks>>, OneLine("w5"))
Ragged == Slots(<<>>, <<<<<<"w1">>, <<Indent>>>>>>, EmptyText)
Broken == Slots(<<>>, <<>>, <<<<"w1">>, <<Heading, "Goals">>, <<"w2">>>>)

Parents == <<[ref |-> <<"o1", "/", "p">>, version |-> <<"1">>]>>

D(slots) == Doc(Shared, Parents, <<<<"o1", "/", "q">>>>, slots)
Seed(slots) == {Doc(NoIdentity, Parents, <<>>, slots)}

Want(level) == [level |-> level, note |-> OneLine("w1")]
In(title, description, prefill, rules) ==
  [title |-> <<title>>, description |-> description, prefill |-> prefill, rules |-> rules]

Strict == [k \in {"goals", "terminology"} |-> Want(IF k = "goals" THEN "required" ELSE "recommended")]

Plain1 == In("A", OneLine("w1"), {}, Strict)
Rich == [In("A", OneLine("w1"), Seed(Full), [k \in {"rules"} |-> Want("required")])
           EXCEPT !.title = <<Indent, "A">>]
Other == In("B", <<<<"w1">>, <<"w2">>>>, Seed(Hollow), [k \in {"goals"} |-> Want("unspecified")])
Blankets == In("B", OneLine("w1"), Seed(Gap), <<>>)
Named == In("B", OneLine("w1"), {D(Bare)}, <<>>)
Unknown == In("B", OneLine("w1"), {}, [k \in {"colour"} |-> Want("required")])

MCInput == {Rich, Other, Blankets}

MCBuiltin == {[id |-> "builtin:blank", title |-> <<"Blank">>, description |-> OneLine("w1"),
               extends |-> <<>>, slots |-> Bare, rules |-> <<>>]}

Admin == [sub |-> "ann", org |-> "o1", role |-> "admin"]
Author == [sub |-> "bob", org |-> "o1", role |-> "publisher"]
Reader == [sub |-> "cid", org |-> "o1", role |-> "viewer"]
Stranger == [sub |-> "eve", org |-> "o2", role |-> "admin"]
MCCaller == {Admin, Author, Stranger}

Ask(op, caller, id) ==
  [op |-> op, caller |-> caller, id |-> id, input |-> Plain1, doc |-> NoDoc, force |-> FALSE,
   from |-> "request"]

AnyId == {"t1", "t2", "builtin:blank"}

MCCall ==
  {Ask("list", Reader, "")}
  \cup {Ask("get", Reader, id) : id \in {"t1", ""}}
  \cup {[Ask("create", Admin, "") EXCEPT !.input = in] : in \in {Plain1, Rich, Blankets, Named, Unknown}}
  \cup {Ask(op, Author, "t1") : op \in {"create", "update"}}
  \cup {[Ask("update", c, id) EXCEPT !.input = in] :
           c \in {Admin, Stranger}, id \in {"t1"}, in \in {Rich, Other}}
  \cup {[Ask("update", Admin, id) EXCEPT !.input = Named] : id \in {"t1", "builtin:blank"}}
  \cup {Ask("delete", c, id) : c \in {Admin, Author, Stranger}, id \in {"t1"}}
  \cup {Ask("delete", Admin, "builtin:blank")}
  \cup {[Ask("publish", c, id) EXCEPT !.doc = d] :
           c \in {Author}, id \in {"", "t1", "builtin:blank"}, d \in {D(Full), D(Hollow), NoDoc}}
  \cup {[Ask("publish", c, id) EXCEPT !.from = "file"] : c \in {Author, Reader}, id \in {"", "its"}}
  \cup {[Ask("init", Author, id) EXCEPT !.force = f] : id \in {"t1", "builtin:blank"}, f \in BOOLEAN}

\* Markdown as people write it, well and badly.
F(body) == [doc |-> NoDoc,
            markdown |-> [front |-> [type |-> "frame", id |-> Shared,
                                     inherits |-> <<<<"o1", "/", "p", "@", "1">>, <<"@", "2">>>>,
                                     excludes |-> <<>>],
                          body |-> body]]
H(k) == <<Heading, MCHeadingOf[k]>>

MCScreen ==
  {[doc |-> d, markdown |-> MarshalMarkdown(D(Bare))] :
     d \in {D(Full), D(Hollow), D(Gap), D(Ragged), D(Broken), Doc(NoIdentity, <<>>, <<>>, Bare)}}
  \cup {F(<<<<Title, "n">>, H("goals"), <<"w1">>, <<>>, H("rules"), <<Bullet, "w2">>, <<>>, <<Indent, "w3">>>>),
        F(<<H("rules"), <<Bullet, "w2">>, H("rules"), <<Bullet, "w3">>>>),
        F(<<H("rules"), <<"w2">>, <<Bullet, "w3">>>>),
        F(<<<<"w1">>, H("goals"), <<"w2">>>>),
        F(<<<<Heading, "Tone">>, <<"w2">>>>),
        F(<<H("terminology"), <<Bullet, Bold, "w1", BoldEnd>>, <<Indent, "w2">>, <<Bullet, Bold, "w3", BoldEnd, "w4">>>>),
        F(<<H("terminology"), <<Bullet, "w1">>>>),
        [F(<<>>) EXCEPT !.markdown.front = NoFrontmatter]}

=============================================================================
