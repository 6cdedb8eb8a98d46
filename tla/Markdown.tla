------------------------------ MODULE Markdown ------------------------------
(***************************************************************************)
(* The .frame.md form of a document: MarshalMarkdown and UnmarshalMarkdown *)
(* (backend/internal/frames/framemd.go), between which the web editor goes *)
(* back and forth with ConvertFrame.                                       *)
(*                                                                         *)
(* A file is a frontmatter, whose values YAML reads back as they were      *)
(* written, and the lines of the body.                                     *)
(***************************************************************************)
EXTENDS Document

CONSTANT HeadingOf  \* function: the heading of each slot

Bullet == "- "
Title == "# "
Heading == "## "
Bold == "**"
BoldEnd == "**: "
At == "@"

\* A frontmatter that is missing, not closed or not readable.
NoFrontmatter == [type |-> Unset]

ASSUME MarkdownAssumption ==
  /\ {Bullet, Title, Heading, Bold, BoldEnd, At, Indent} \subseteq Piece
  /\ HeadingOf \in [Key -> Piece \ Spaces]
  /\ \A k, l \in Key : k # l => HeadingOf[k] # HeadingOf[l]

StartsWith(line, mark) == line # <<>> /\ Head(line) = mark

-----------------------------------------------------------------------------
(* Writing.                                                                *)

\* Continuation lines that are not indented.
MutWriteBullet(item) ==
  LET lines == TrimNewlines(item)
  IN <<<<Bullet>> \o Head(lines)>> \o Tail(lines)

\* A line of spaces in an item loses them.
WriteBullet(item) ==
  LET lines == TrimNewlines(item)
  IN <<<<Bullet>> \o Head(lines)>>
     \o [i \in DOMAIN Tail(lines) |->
           IF BlankLine(Tail(lines)[i]) THEN <<>> ELSE <<Indent>> \o Tail(lines)[i]]

TermItem(t) == <<<<Bold>> \o t.term \o <<BoldEnd>> \o Head(t.definition)>> \o Tail(t.definition)

Entries(k, slot) == IF KindOf[k] = "terms" THEN [i \in DOMAIN slot |-> TermItem(slot[i])] ELSE slot

\* A slot without entries, and prose without a word, is not written.
writeSlot(k, slot) ==
  CASE KindOf[k] = "prose" /\ ~Blank(slot) ->
         <<<<Heading, HeadingOf[k]>>, <<>>>> \o TrimNewlines(slot) \o <<<<>>>>
    [] KindOf[k] # "prose" /\ slot # <<>> ->
         <<<<Heading, HeadingOf[k]>>, <<>>>>
         \o FlattenSeq([i \in DOMAIN slot |-> WriteBullet(Entries(k, slot)[i])]) \o <<<<>>>>
    [] OTHER -> <<>>

Inherit(e) == e.ref \o IF e.version = <<>> THEN <<>> ELSE <<At>> \o e.version

\* Documents older than the field get a visibility here.
MarshalMarkdown(doc) ==
  LET visibility == IF doc.id.visibility = Unset THEN "internal" ELSE doc.id.visibility
      title == IF doc.id.name = Unset THEN <<>> ELSE <<<<Title, doc.id.name>>, <<>>>>
      slots == [i \in DOMAIN SlotTable |-> writeSlot(SlotTable[i], doc.slots[SlotTable[i]])]
  IN [front |-> [type |-> "frame [0.2]", id |-> [doc.id EXCEPT !.visibility = visibility],
                 inherits |-> [i \in DOMAIN doc.extends |-> Inherit(doc.extends[i])],
                 excludes |-> doc.excludes],
      body |-> <<<<>>>> \o title \o FlattenSeq(slots)]

-----------------------------------------------------------------------------
(* Reading.                                                                *)

\* A reference is pinned from its last "@" on, unless it begins with it.
parseInherit(entry) ==
  LET ref == TrimLine(entry)
      at == {i \in DOMAIN ref : ref[i] = At /\ i > 1}
  IN IF at = {} THEN [ref |-> ref, version |-> <<>>]
     ELSE [ref |-> SubSeq(ref, 1, Max(at) - 1), version |-> SubSeq(ref, Max(at) + 1, Len(ref))]

\* One line more: an item, part of the last one, or stray if it is neither.
ReadBullet(acc, line) ==
  LET More(rest) == [acc EXCEPT !.items = Front(@) \o <<Append(Last(@), rest)>>]
  IN CASE StartsWith(line, Bullet) -> [acc EXCEPT !.items = Append(@, <<Tail(line)>>)]
       [] BlankLine(line) -> IF acc.items = <<>> THEN acc ELSE More(<<>>)
       [] StartsWith(line, Indent) /\ ~BlankLine(line) /\ acc.items # <<>> -> More(Tail(line))
       [] OTHER -> [acc EXCEPT !.stray = TRUE]

\* The items of a section.
parseBullets(content) ==
  LET Read[i \in 0..Len(content)] ==
        IF i = 0 THEN [items |-> <<>>, stray |-> FALSE] ELSE ReadBullet(Read[i - 1], content[i])
      read == Read[Len(content)]
  IN [read EXCEPT !.items = [i \in DOMAIN @ |-> TrimNewlines(@[i])]]

\* strings.TrimSpace.
TrimSpace(text) ==
  LET solid == {i \in DOMAIN text : ~BlankLine(text[i])}
      Left(line) == SelectInSeq(line, LAMBDA w : w \notin Spaces)
      Right(line) == SelectLastInSeq(line, LAMBDA w : w \notin Spaces)
      Cut(i) == SubSeq(text[i], IF i = Min(solid) THEN Left(text[i]) ELSE 1,
                                IF i = Max(solid) THEN Right(text[i]) ELSE Len(text[i]))
  IN IF solid = {} THEN EmptyText ELSE [j \in 1..(Max(solid) - Min(solid) + 1) |-> Cut(Min(solid) + j - 1)]

\* An item of the form **term**: definition, as the set of the term it gives.
ParseTerm(item) ==
  LET line == Head(item)
      end == {i \in DOMAIN line : line[i] = BoldEnd /\ i > 2}
  IN IF ~StartsWith(line, Bold) \/ end = {} THEN {}
     ELSE {[term |-> TrimLine(SubSeq(line, 2, Min(end) - 1)),
            definition |-> TrimSpace(<<SubSeq(line, Min(end) + 1, Len(line))>> \o Tail(item))]}

HeadingsIn(body) == {i \in DOMAIN body : StartsWith(body[i], Heading)}

\* The lines of the section that begins at line h.
Content(body, h) ==
  SubSeq(body, h + 1, Min({i \in HeadingsIn(body) : i > h} \cup {Len(body) + 1}) - 1)

\* The lines at which a section of slot k begins.
SectionsOf(body, k) == {h \in HeadingsIn(body) : TrimLine(Tail(body[h])) = <<HeadingOf[k]>>}

\* What a section says, as a set: of nothing if it is malformed.
ReadSlot(k, content) ==
  LET read == parseBullets(content)
      terms == [i \in DOMAIN read.items |-> ParseTerm(read.items[i])]
  IN CASE KindOf[k] = "prose" -> {TrimNewlines(IF content = <<>> THEN EmptyText ELSE content)}
       [] KindOf[k] = "list"  -> IF read.stray THEN {} ELSE {read.items}
       [] KindOf[k] = "terms" -> IF read.stray \/ \E i \in DOMAIN terms : terms[i] = {} THEN {}
                                 ELSE {[i \in DOMAIN terms |-> CHOOSE t \in terms[i] : TRUE]}

\* A second section of a slot replaces the first.
MutOnce(body) == TRUE
Once(body) == \A k \in Key : Cardinality(SectionsOf(body, k)) <= 1

\* The lines before the first section; the first of them may be the title, which
\* is not read: the name is in the frontmatter.
Before(body) == {i \in DOMAIN body : ~BlankLine(body[i]) /\ \A h \in HeadingsIn(body) : i < h}

TitleLines(body) == {i \in Before(body) : i = Min(Before(body)) /\ StartsWith(TrimLine(body[i]), Title)}

\* Before the first section only the title, all sections known, none twice.
WellFormed(file) ==
  LET body == file.body
  IN /\ file.front # NoFrontmatter
     /\ file.front.type \in {"frame", "frame [0.2]"}
     /\ Before(body) \subseteq TitleLines(body)
     /\ HeadingsIn(body) \subseteq UNION {SectionsOf(body, k) : k \in Key}
     /\ Once(body)
     /\ \A k \in Key, h \in HeadingsIn(body) :
          h \in SectionsOf(body, k) => ReadSlot(k, Content(body, h)) # {}

\* The document of a well-formed file; its values are left to Valid.
UnmarshalMarkdown(file) ==
  LET body == file.body
      Slot(k) == IF SectionsOf(body, k) = {} THEN NoContent[k]
                 ELSE CHOOSE s \in ReadSlot(k, Content(body, Max(SectionsOf(body, k)))) : TRUE
  IN Doc(file.front.id, [i \in DOMAIN file.front.inherits |-> parseInherit(file.front.inherits[i])],
         file.front.excludes, [k \in Key |-> Slot(k)])

-----------------------------------------------------------------------------
(* What is said: words, in lines, slots and files.                         *)

\* What means something to the code is nobody's word.
Marks == {Bullet, Title, Heading, Bold, BoldEnd} \cup Spaces \cup {HeadingOf[k] : k \in Key}

WordsOf(text) == (UNION {ToSet(text[i]) : i \in DOMAIN text}) \ Marks

WordsIn(k, slot) ==
  IF KindOf[k] = "prose" THEN WordsOf(slot)
  ELSE UNION {WordsOf(Entries(k, slot)[i]) : i \in DOMAIN slot}

\* The title of a file says the name once more.
WordsInBody(body) == (UNION {ToSet(body[i]) : i \in DOMAIN body \ TitleLines(body)}) \ Marks

-----------------------------------------------------------------------------
(* What comes back of what was written.                                    *)

\* Entries begin and end with something that is not taken for layout.
Framed(k, entry) ==
  IF KindOf[k] = "terms"
    THEN /\ entry.term = TrimLine(entry.term) /\ BoldEnd \notin ToSet(entry.term)
         /\ entry.definition = TrimSpace(entry.definition)
    ELSE Head(entry) # <<>> /\ ~BlankLine(Last(entry))

\* Documents that markdown can hold.
Expressible(doc) ==
  /\ Valid(doc) /\ doc.id.visibility # Unset
  /\ \A i \in DOMAIN doc.extends : LET e == doc.extends[i] IN
       e.ref = TrimLine(e.ref) /\ e.version = TrimLine(e.version) /\ At \notin ToSet(e.version)
  /\ \A k \in Key : LET slot == doc.slots[k] IN
       IF KindOf[k] = "prose" THEN /\ slot = TrimNewlines(slot) /\ (Blank(slot) => slot = EmptyText)
                                   /\ HeadingsIn(slot) = {}
       ELSE \A i \in DOMAIN slot : Framed(k, slot[i])

\* The lines of spaces in an entry, but for the first, come back without them.
Stripped(text) == [i \in DOMAIN text |-> IF i > 1 /\ BlankLine(text[i]) THEN <<>> ELSE text[i]]

ReadBack(k, slot) ==
  CASE KindOf[k] = "prose" -> slot
    [] KindOf[k] = "list"  -> [i \in DOMAIN slot |-> Stripped(slot[i])]
    [] KindOf[k] = "terms" -> [i \in DOMAIN slot |-> [slot[i] EXCEPT !.definition = Stripped(@)]]

=============================================================================
