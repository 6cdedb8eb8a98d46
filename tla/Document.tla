------------------------------ MODULE Document ------------------------------
(***************************************************************************)
(* Frame documents and what is asked of them: the slots, Validate and the  *)
(* content rules it shares with templates                                  *)
(* (backend/internal/frames/schema.go, slots.go, validate.go).             *)
(*                                                                         *)
(* A line of text is a sequence of pieces: words, and the marks that mean  *)
(* something to the code.  A text is a sequence of lines, never an empty   *)
(* one: the empty string is one empty line.                                *)
(***************************************************************************)
EXTENDS Integers, SequencesExt

CONSTANTS
  SlotTable,   \* the keys of the slots, in schema order; the code has ten
  KindOf,      \* function: the kind of each slot
  Piece,       \* what lines are made of
  FrameName,   \* names that match nameRe
  Unparsable   \* content that is no YAML or has a key the schema does not

Key == ToSet(SlotTable)

\* A string that is not given.
Unset == ""

ASSUME DocumentAssumption ==
  /\ SlotTable \in Seq(Key)
  /\ KindOf \in [Key -> {"terms", "list", "prose"}]
  /\ \A i, j \in DOMAIN SlotTable : i # j => SlotTable[i] # SlotTable[j]
  /\ Unset \notin FrameName

-----------------------------------------------------------------------------
(* Texts.                                                                  *)

Indent == "  "
Spaces == {Indent, " "}

EmptyText == <<<<>>>>

BlankLine(line) == ToSet(line) \subseteq Spaces

\* strings.TrimSpace(s) == "".
Blank(text) == \A i \in DOMAIN text : BlankLine(text[i])

TrimLine(line) ==
  LET solid == {i \in DOMAIN line : line[i] \notin Spaces}
  IN IF solid = {} THEN <<>> ELSE SubSeq(line, Min(solid), Max(solid))

\* strings.Trim(s, "\n"): empty lines at the edges go, lines of spaces stay.
TrimNewlines(text) ==
  LET full == {i \in DOMAIN text : text[i] # <<>>}
  IN IF full = {} THEN EmptyText ELSE SubSeq(text, Min(full), Max(full))

-----------------------------------------------------------------------------
(* Documents: identity, references and slots.                              *)

\* Lines, texts and what the slots hold.
Line == Seq(Piece)
Text == Seq(Line) \ {<<>>}

Visibility == {"private", "internal", "shared", "public"}

NoContent == [k \in Key |-> IF KindOf[k] = "prose" THEN EmptyText ELSE <<>>]

\* What identifies a frame has these fields; its name is written as it is.
IsIdentity(id) ==
  /\ id = [name |-> id.name, description |-> id.description,
           version |-> id.version, visibility |-> id.visibility]
  /\ id.name \in Piece

\* A parent as it is written: the frame's full name and a version.
Reference == [ref : Line, version : Line]

Entry(k) == IF KindOf[k] = "terms" THEN [term : Line, definition : Text] ELSE Text

SlotType(k) == IF KindOf[k] = "prose" THEN Text ELSE Seq(Entry(k))

NoIdentity == [name |-> Unset, description |-> Unset, version |-> <<>>, visibility |-> Unset]

\* A parent has a ref and a version, an entry of a slot of terms a term and a
\* definition; an entry of a list is a text, and so is a slot of prose.
Doc(identity, extends, excludes, slots) ==
  [id |-> identity, extends |-> extends, excludes |-> excludes, slots |-> slots]

\* The entries of slot k that are incomplete, or define a term again.
WrongEntries(k, entries) ==
  CASE KindOf[k] = "terms" -> {i \in DOMAIN entries :
         \/ BlankLine(entries[i].term) \/ Blank(entries[i].definition)
         \/ \E j \in 1..(i - 1) : entries[j].term = entries[i].term}
    [] KindOf[k] = "list"  -> {i \in DOMAIN entries : Blank(entries[i])}
    [] KindOf[k] = "prose" -> {}

\* The parents that name no organization or no version.
WrongRefs(extends) ==
  {i \in DOMAIN extends : "/" \notin ToSet(extends[i].ref) \/ BlankLine(extends[i].version)}

\* Whether anything but the identity is wrong.
contentErrors(slots, extends) ==
  WrongRefs(extends) # {} \/ \E k \in Key : WrongEntries(k, slots[k]) # {}

\* Validate(doc) == nil.
Valid(doc) ==
  /\ doc.id.name \in FrameName
  /\ doc.id.description # Unset
  /\ ~BlankLine(doc.id.version)
  /\ doc.id.visibility \in Visibility \cup {Unset}
  /\ ~contentErrors(doc.slots, doc.extends)

=============================================================================
