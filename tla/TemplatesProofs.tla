--------------------------- MODULE TemplatesProofs ---------------------------
(***************************************************************************)
(* Theorems about the table of templates, the requests that use it, what   *)
(* frames are created with, the scaffolds of the command line and the      *)
(* conversions of the editor, for any organizations, callers, requests,    *)
(* slots and texts.                                                        *)
(***************************************************************************)
EXTENDS Templates, MarkdownProofs, TLAPS

(* Titles are unique only while ids are: the row an UPDATE finds by its id *)
(* is the only row the comparison of titles may leave out.                 *)
IdsSpent ==
  /\ spent \subseteq TemplateId
  /\ \A t \in templates : t.id \in spent

\* A request that is being served has shown nothing yet.
NothingShown == pc # "idle" => reply.shown = {}

IInv == IdsSpent /\ TitlesUnique /\ NothingShown

-----------------------------------------------------------------------------
(* The two writes.                                                         *)

\* A row is what its id, its organization and its columns make it.
LEMMA RowFields ==
  ASSUME NEW id, NEW org, NEW columns
  PROVE  /\ Row(id, org, columns).id = id
         /\ Row(id, org, columns).org = org
         /\ Row(id, org, columns).title = columns.title
  BY DEF Row

\* While not all ids are spent there is a fresh one.
LEMMA FreshId ==
  ASSUME IdsSpent, TemplateId # spent
  PROVE  NewId \in TemplateId /\ NewId \notin spent
<1>1. \E id \in TemplateId : id \notin spent
  BY DEF IdsSpent
<1> QED
  BY <1>1 DEF NewId

\* A row with a fresh id and a title its organization does not have.
LEMMA InsertKeeps ==
  ASSUME IdsSpent, TitlesUnique, NEW org, NEW columns,
         ~TitleTaken(org, columns.title, {}), TemplateId # spent,
         Insert(Row(NewId, org, columns))
  PROVE  IdsSpent' /\ TitlesUnique'
<1> DEFINE row == Row(NewId, org, columns)
<1>1. row.id = NewId /\ row.org = org /\ row.title = columns.title
  BY RowFields
<1>2. templates' = templates \cup {row} /\ spent' = spent \cup {NewId}
  BY <1>1 DEF Insert
<1>3. \A t \in templates : t.org = org => t.title # row.title
  BY <1>1 DEF TitleTaken, RowsOf
<1>4. \A t \in templates : t.id # row.id
  BY <1>1, FreshId DEF IdsSpent
<1> HIDE DEF row
<1>5. IdsSpent'
  BY <1>1, <1>2, FreshId DEF IdsSpent
<1>6. TitlesUnique'
  BY <1>1, <1>2, <1>3, <1>4 DEF TitlesUnique
<1> QED
  BY <1>5, <1>6

\* A row gets a title no other row of its organization has.
LEMMA UpdateKeeps ==
  ASSUME IdsSpent, TitlesUnique, NEW old \in templates, NEW columns,
         \A t \in templates \ {old} : t.org = old.org => t.title # columns.title,
         Update(old, columns)
  PROVE  IdsSpent' /\ TitlesUnique'
<1> DEFINE row == Updated(old, columns)
<1>1. row.id = old.id /\ row.org = old.org /\ row.title = columns.title
  BY RowFields DEF Updated
<1>2. templates' = (templates \ {old}) \cup {row} /\ spent' = spent
  BY DEF Update
<1> HIDE DEF row
<1>3. IdsSpent'
  BY <1>1, <1>2 DEF IdsSpent
<1>4. TitlesUnique'
  BY <1>1, <1>2 DEF TitlesUnique
<1> QED
  BY <1>3, <1>4

\* Rows that go are in nobody's way.
LEMMA DeleteKeeps ==
  ASSUME IdsSpent, TitlesUnique, NEW rows, Delete(rows)
  PROVE  IdsSpent' /\ TitlesUnique'
  BY DEF Delete, IdsSpent, TitlesUnique

\* A step elsewhere leaves the table as it is.
LEMMA NothingKeeps ==
  ASSUME IdsSpent, TitlesUnique, UNCHANGED <<templates, spent>>
  PROVE  IdsSpent' /\ TitlesUnique'
  BY DEF IdsSpent, TitlesUnique

-----------------------------------------------------------------------------
(* The steps.                                                              *)

\* What the client's steps do to the table, and whose rows they show.
Own ==
  /\ \A t \in templates \ templates' : t.org = call.caller.org
  /\ \A t \in templates' \ templates : t.org = call.caller.org
  /\ \A t \in reply'.shown : t \in Builtin \/ t.org = call.caller.org

\* A step of a request that ends it, or shows nothing yet.
LEMMA Ends ==
  ASSUME NEW code, NEW shown, Finish(code, shown)
  PROVE  NothingShown' /\ reply'.shown = shown
  BY DEF Finish, NothingShown

\* A request that fails shows nothing.
LEMMA FailEnds ==
  ASSUME NEW code, Fail(code)
  PROVE  NothingShown' /\ reply'.shown = {}
  BY DEF Fail, Finish, NothingShown

\* Nor does one that is not through.
LEMMA GoesOn ==
  ASSUME NothingShown, pc # "idle", UNCHANGED reply
  PROVE  NothingShown' /\ reply'.shown = {}
  BY DEF NothingShown

\* A step that leaves the table alone and shows no more than rows of the
\* caller's organization and built-ins.
LEMMA Reads ==
  ASSUME IInv, UNCHANGED store, NothingShown',
         reply'.shown \subseteq Builtin \cup RowsOf(call.caller.org)
  PROVE  IInv' /\ Own
<1>1. IdsSpent' /\ TitlesUnique'
  BY NothingKeeps DEF IInv, store
<1>2. \A t \in reply'.shown : t \in Builtin \/ t.org = call.caller.org
  BY DEF RowsOf
<1>3. templates' = templates
  BY DEF store
<1> QED
  BY <1>1, <1>2, <1>3 DEF IInv, Own

\* CreateFrameTemplate.
LEMMA Creation ==
  ASSUME IInv, CreateFrameTemplate
  PROVE  IInv' /\ Own
<1> DEFINE new == Columns(call.input)
           org == call.caller.org
<1>0. pc # "idle"
  BY DEF CreateFrameTemplate
<1>1. CASE (Refused \/ Fail("invalid_argument") \/ Fail("already_exists")) /\ UNCHANGED store
  BY <1>1, FailEnds, Reads DEF Refused
<1>2. CASE /\ ~TitleTaken(org, new.title, {}) /\ TemplateId # spent
           /\ Insert(Row(NewId, org, new)) /\ Wrote(NewId)
  <2>1. IdsSpent' /\ TitlesUnique'
    BY <1>2, InsertKeeps DEF IInv
  <2>2. NothingShown' /\ reply'.shown = {}
    BY <1>0, <1>2, GoesOn DEF Wrote, IInv
  <2>3. \A t \in templates' : t \in templates \/ t.org = org
    BY <1>2, RowFields DEF Insert
  <2>4. templates \subseteq templates'
    BY <1>2 DEF Insert
  <2> QED
    BY <2>1, <2>2, <2>3, <2>4 DEF IInv, Own
<1> QED
  BY <1>1, <1>2 DEF CreateFrameTemplate

\* UpdateFrameTemplate: the row it finds is the only one with its id.
LEMMA Change ==
  ASSUME IInv, UpdateFrameTemplate
  PROVE  IInv' /\ Own
<1> DEFINE new == Columns(call.input)
           org == call.caller.org
           found == Matching(org, call.id)
<1>0. pc # "idle"
  BY DEF UpdateFrameTemplate
<1>1. CASE /\ \/ Refused \/ Fail("invalid_argument") \/ Fail("not_found")
              \/ Fail("already_exists")
           /\ UNCHANGED store
  BY <1>1, FailEnds, Reads DEF Refused
<1>2. ASSUME ~(found # {} /\ TitleTaken(org, new.title, found)),
             NEW old \in found, Update(old, new), Wrote(old.id)
      PROVE  IInv' /\ Own
  <2>1. old \in templates /\ old.org = org /\ old.id = call.id
    BY <1>2 DEF Matching, RowsOf
  <2>2. \A t \in templates \ {old} : t \notin found
    BY <2>1 DEF IInv, TitlesUnique, Matching, RowsOf
  <2>3. \A t \in templates \ {old} : t.org = old.org => t.title # new.title
    BY <1>2, <2>1, <2>2 DEF TitleTaken, RowsOf
  <2>4. IdsSpent' /\ TitlesUnique'
    BY <1>2, <2>1, <2>3, UpdateKeeps DEF IInv
  <2>5. NothingShown' /\ reply'.shown = {}
    BY <1>0, <1>2, GoesOn DEF Wrote, IInv
  <2>6. Updated(old, new).org = org
    BY <2>1, RowFields DEF Updated
  <2>7. templates' = (templates \ {old}) \cup {Updated(old, new)}
    BY <1>2 DEF Update
  <2> QED
    BY <2>1, <2>4, <2>5, <2>6, <2>7 DEF IInv, Own
<1> QED
  BY <1>1, <1>2 DEF UpdateFrameTemplate

\* DeleteFrameTemplate.
LEMMA Removal ==
  ASSUME IInv, DeleteFrameTemplate
  PROVE  IInv' /\ Own
<1> DEFINE found == Matching(call.caller.org, call.id)
<1>1. CASE (Refused \/ Fail("invalid_argument") \/ Fail("not_found")) /\ UNCHANGED store
  BY <1>1, FailEnds, Reads DEF Refused
<1>2. CASE Delete(found) /\ Finish("ok", {})
  <2>1. IdsSpent' /\ TitlesUnique'
    BY <1>2, DeleteKeeps DEF IInv
  <2>2. NothingShown' /\ reply'.shown = {}
    BY <1>2, Ends
  <2>3. templates' = templates \ found
    BY <1>2 DEF Delete
  <2>4. \A t \in found : t.org = call.caller.org
    BY DEF Matching, RowsOf
  <2> QED
    BY <2>1, <2>2, <2>3, <2>4 DEF IInv, Own
<1> QED
  BY <1>1, <1>2 DEF DeleteFrameTemplate

\* The handlers that only look.
LEMMA Lookup ==
  ASSUME IInv, ListFrameTemplates \/ GetFrameTemplate \/ RespondWithRow
  PROVE  IInv' /\ Own
<1>1. UNCHANGED store
  BY DEF ListFrameTemplates, GetFrameTemplate, RespondWithRow
<1>2. lookupTemplate \subseteq Builtin \cup RowsOf(call.caller.org)
  BY DEF lookupTemplate, Matching
<1>3. Matching(call.caller.org, call.id) \subseteq RowsOf(call.caller.org)
  BY DEF Matching
<1>4. NothingShown' /\ reply'.shown \subseteq Builtin \cup RowsOf(call.caller.org)
  <2>1. CASE ListFrameTemplates
    BY <2>1, Ends DEF ListFrameTemplates
  <2>2. CASE GetFrameTemplate
    BY <2>2, <1>2, Ends, FailEnds DEF GetFrameTemplate
  <2>3. CASE RespondWithRow
    BY <2>3, <1>3, Ends, FailEnds DEF RespondWithRow
  <2> QED
    BY <2>1, <2>2, <2>3
<1> QED
  BY <1>1, <1>4, Reads

\* Publishing and `frames template init` change frames and files only.
LEMMA Elsewhere ==
  ASSUME IInv,
         \/ Publish \/ FindFrame \/ SaveFrame \/ TemplateInit \/ Stat \/ WriteScaffold
         \/ StoreError
  PROVE  IInv' /\ Own
<1>1. UNCHANGED <<templates, spent>> /\ pc # "idle"
  BY DEF Publish, FindFrame, SaveFrame, TemplateInit, Stat, WriteScaffold, StoreError, store
<1>2. \/ UNCHANGED reply
      \/ \E code : Fail(code) \/ Finish(code, {})
  BY DEF Publish, FindFrame, SaveFrame, TemplateInit, Stat, WriteScaffold, StoreError, Goto
<1>3. NothingShown' /\ reply'.shown = {}
  BY <1>1, <1>2, Ends, FailEnds, GoesOn DEF IInv
<1>4. IdsSpent' /\ TitlesUnique'
  BY <1>1, NothingKeeps DEF IInv
<1> QED
  BY <1>1, <1>3, <1>4 DEF IInv, Own

\* What other handlers write keeps the table as well.
LEMMA Interference ==
  ASSUME IInv, Others
  PROVE  IInv'
<1>1. UNCHANGED <<pc, reply>>
  BY DEF Others
<1>2. NothingShown'
  BY <1>1 DEF IInv, NothingShown
<1>3. ASSUME NEW org \in Org, NEW in \in Input,
             ~TitleTaken(org, Columns(in).title, {}), TemplateId # spent,
             Insert(Row(NewId, org, Columns(in)))
      PROVE  IdsSpent' /\ TitlesUnique'
  BY <1>3, InsertKeeps DEF IInv
<1>4. ASSUME NEW t \in templates, NEW in \in Input,
             ~TitleTaken(t.org, Columns(in).title, {t}), Update(t, Columns(in))
      PROVE  IdsSpent' /\ TitlesUnique'
  <2>1. \A u \in templates \ {t} : u.org = t.org => u.title # Columns(in).title
    BY <1>4 DEF TitleTaken, RowsOf
  <2> QED
    BY <1>4, <2>1, UpdateKeeps DEF IInv
<1>5. ASSUME NEW t \in templates, Delete({t})
      PROVE  IdsSpent' /\ TitlesUnique'
  BY <1>5, DeleteKeeps DEF IInv
<1>6. UNCHANGED <<templates, spent>> => IdsSpent' /\ TitlesUnique'
  BY NothingKeeps DEF IInv
<1>7. IdsSpent' /\ TitlesUnique'
  BY <1>3, <1>4, <1>5, <1>6 DEF Others
<1> QED
  BY <1>2, <1>7 DEF IInv

\* Every step of the client keeps the table and stays in its organization.
LEMMA HandlerStep ==
  ASSUME IInv, Handler
  PROVE  IInv' /\ Own
  BY Creation, Change, Removal, Lookup, Elsewhere DEF Handler

\* Every step keeps the invariant.
LEMMA Steps ==
  ASSUME IInv, [Next]_vars
  PROVE  IInv'
<1>1. CASE Receive
  <2>1. IdsSpent' /\ TitlesUnique'
    BY <1>1, NothingKeeps DEF Receive, store, IInv
  <2>2. NothingShown'
    BY <1>1 DEF Receive, NothingShown
  <2> QED
    BY <2>1, <2>2 DEF IInv
<1>2. CASE FillIn \/ Convert \/ UNCHANGED vars
  <2>1. UNCHANGED <<templates, spent, pc, reply>>
    BY <1>2 DEF FillIn, Convert, vars, store, client
  <2> QED
    BY <2>1, NothingKeeps DEF IInv, NothingShown
<1>3. CASE Others
  BY <1>3, Interference
<1>4. CASE Handler
  BY <1>4, HandlerStep
<1> QED
  BY <1>1, <1>2, <1>3, <1>4 DEF Next

-----------------------------------------------------------------------------
(* The theorems.                                                           *)

\* The strengthening holds of every state.
THEOREM Inductive == Spec => []IInv
<1>1. Init => IInv
  BY DEF Init, IInv, IdsSpent, TitlesUnique, NothingShown
<1>2. IInv /\ [Next]_vars => IInv'
  BY Steps
<1> QED
  BY <1>1, <1>2, PTL DEF Spec

\* No two templates of an organization ever have one title, and no two one id,
\* whatever the interleaving of creations, renamings and deletions
\* (CreateFrameTemplate, UpdateFrameTemplate).
THEOREM Titles == Spec => []TitlesUnique
<1>1. IInv => TitlesUnique
  BY DEF IInv
<1> QED
  BY <1>1, Inductive, PTL

\* No request changes or shows another organization's template, for any
\* organizations and any id (lookupTemplate, UpdateFrameTemplate,
\* DeleteFrameTemplate, respondWithRow).
THEOREM StayInOrg == Spec => TemplatesStayInOrg
<1> DEFINE Step == ClientStep /\ pc # "idle" => Own
<1>1. IInv /\ [Next]_vars => [Step]_vars
  <2> SUFFICES ASSUME IInv, Next, ClientStep, pc # "idle"
               PROVE  Own
    OBVIOUS
  <2>1. ~Receive /\ ~FillIn /\ ~Convert /\ ~Others
    BY DEF Receive, FillIn, Convert, Others, ClientStep
  <2> QED
    BY <2>1, HandlerStep DEF Next
<1> QED
  BY <1>1, Inductive, PTL DEF Spec, TemplatesStayInOrg, Own

-----------------------------------------------------------------------------
(* What a request, a row and a scaffold are made of.                       *)

IsCall(c) ==
  c = [op |-> c.op, caller |-> c.caller, id |-> c.id, input |-> c.input, doc |-> c.doc,
       force |-> c.force, from |-> c.from]

\* A template names slots only, and its content is free of errors.
IsTemplate(t) ==
  /\ DOMAIN t.rules \subseteq Key
  /\ \E e \in Origin : t.extends = e.extends /\ t.slots = e.slots
  /\ ~contentErrors(t.slots, t.extends)

\* A scaffold did not come through its guidance, or is a frame but for its name.
IsScaffold(f) ==
  /\ f = [doc |-> f.doc, template |-> f.template]
  /\ \/ f.doc = Unparsable /\ ~Commented(f.template)
     \/ \E id \in ScaffoldId, e \in Origin :
          f.doc = Doc(id, e.extends, <<>>, e.slots) /\ ~contentErrors(e.slots, e.extends)

FillsRequired(t, slots) ==
  \A k \in DOMAIN t.rules : t.rules[k].level = "required" => Fills(k, slots[k])

\* What is being served is one of the requests, and has no answer yet.
Asked == pc # "idle" => IsCall(call) /\ call.input \in Inputs /\ reply.code = "none"

RowsAreTemplates == \A t \in templates : IsTemplate(t)

FilesAreScaffolds == \A f \in file : IsScaffold(f)

\* What is to be written was looked up as a template.
HeldAreTemplates == pc \in {"stat", "write"} => \A t \in held : IsTemplate(t)

\* A document that is published from a file is still the file's.
ComesFromFile == pc = "begin" /\ call.from = "file" => \E f \in file : call.doc = f.doc

\* Until it writes, a request has seen every row its id has had.
SeenSince == pc \notin {"idle", "respond"} => \A t \in templates : t.id = call.id => t \in seen

\* After it has written, the row says what it wrote, or has been seen changed.
WroteSince ==
  pc = "respond" => \A t \in templates : t.id = call.id => t \in seen \/ Says(t, call.input)

\* Past the check, some template of that id has had its sections.
CheckedOnce ==
  pc \in {"name", "save"} /\ call.id # Unset =>
    \E t \in seen \cup Builtin : t.id = call.id /\ FillsRequired(t, call.doc.slots)

UseInv ==
  /\ Asked /\ RowsAreTemplates /\ FilesAreScaffolds /\ HeldAreTemplates /\ ComesFromFile
  /\ SeenSince /\ WroteSince /\ CheckedOnce

-----------------------------------------------------------------------------
(* Sections and columns.                                                   *)

\* The check of a section finds what somebody has written, of whatever kind.
LEMMA ContentFills ==
  ASSUME NEW k \in Key, NEW slot
  PROVE  slotHasContent(k, slot) <=> Fills(k, slot)
<1>1. KindOf[k] \in {"terms", "list", "prose"}
  BY DocumentAssumption
<1>2. \A line : ~BlankLine(line) <=> ToSet(line) \ Spaces # {}
  BY DEF BlankLine
<1>3. \A text : ~Blank(text) <=> Solid(text)
  BY <1>2 DEF Blank, Solid
<1>4. CASE KindOf[k] = "terms"
  BY <1>2, <1>3, <1>4 DEF slotHasContent, Fills
<1>5. CASE KindOf[k] = "list"
  BY <1>3, <1>5 DEF slotHasContent, Fills
<1>6. CASE KindOf[k] = "prose"
  BY <1>3, <1>6 DEF slotHasContent, Fills
<1> QED
  BY <1>1, <1>4, <1>5, <1>6

\* A slot of nothing is free of errors.
LEMMA NothingIsRight == ~contentErrors(NoContent, <<>>)
<1>1. WrongRefs(<<>>) = {}
  BY DEF WrongRefs
<1>2. \A k \in Key : WrongEntries(k, NoContent[k]) = {}
  BY DocumentAssumption DEF WrongEntries, NoContent
<1> QED
  BY <1>1, <1>2 DEF contentErrors

\* A row made of the columns of an input says what the input says.
LEMMA ColumnsSay ==
  ASSUME NEW in \in Inputs, NEW id, NEW org
  PROVE  Says(Row(id, org, Columns(in)), in)
<1>DEFINE t == Row(id, org, Columns(in))
<1>1. t.title = TrimLine(in.title) /\ t.description = TrimSpace(in.description)
  BY DEF Row, Columns
<1>2. IF in.prefill = {} THEN t.slots = NoContent ELSE \A p \in in.prefill : t.slots = p.slots
  BY CallAssumption DEF Row, Columns
<1>3. t.rules = [k \in DOMAIN in.rules |-> [in.rules[k] EXCEPT !.level = requirementFromProto(@)]]
  BY DEF Row, Columns
<1>4. ASSUME NEW k \in DOMAIN in.rules
      PROVE  t.rules[k].level = "required" <=> in.rules[k].level = "required"
  <2>1. in.rules[k] = [level |-> in.rules[k].level, note |-> in.rules[k].note]
    BY CallAssumption
  <2>2. t.rules[k].level = requirementFromProto(in.rules[k].level)
    BY <1>3, <2>1
  <2> QED
    BY <2>2 DEF requirementFromProto
<1>5. DOMAIN t.rules = DOMAIN in.rules
  BY <1>3
<1> QED
  BY <1>1, <1>2, <1>4, <1>5 DEF Says

\* A row made of the columns of an input that was accepted is a template.
LEMMA ColumnsMakeTemplates ==
  ASSUME NEW in \in Inputs, Accepted(in), NEW id, NEW org
  PROVE  IsTemplate(Row(id, org, Columns(in)))
<1>DEFINE t == Row(id, org, Columns(in))
<1>1. DOMAIN t.rules \subseteq Key
  BY DEF Row, Columns, Accepted
<1>2. CASE in.prefill = {}
  <2>1. t.extends = <<>> /\ t.slots = NoContent
    BY <1>2 DEF Row, Columns
  <2>2. [extends |-> <<>>, slots |-> NoContent] \in Origin
    BY DEF Origin
  <2> QED
    BY <1>1, <2>1, <2>2, NothingIsRight DEF IsTemplate
<1>3. CASE in.prefill # {}
  <2>1. PICK p \in in.prefill : t.extends = p.extends /\ t.slots = p.slots
    BY <1>3 DEF Row, Columns
  <2>2. [extends |-> p.extends, slots |-> p.slots] \in Origin
    BY DEF Origin
  <2>3. ~contentErrors(p.slots, p.extends)
    BY DEF Accepted
  <2> QED
    BY <1>1, <2>1, <2>2, <2>3 DEF IsTemplate
<1> QED
  BY <1>2, <1>3

\* So is a built-in.
LEMMA BuiltinsAreTemplates ==
  ASSUME NEW b \in Builtin PROVE IsTemplate(b)
<1>1. [extends |-> b.extends, slots |-> b.slots] \in Origin
  BY DEF Origin
<1> QED
  BY <1>1, TemplatesAssumption DEF IsTemplate

-----------------------------------------------------------------------------
(* The steps keep it.                                                      *)

\* A request that is over has no more to answer for.
LEMMA OverUse ==
  ASSUME RowsAreTemplates', FilesAreScaffolds', pc' = "idle"
  PROVE  UseInv'
  BY DEF UseInv, Asked, HeldAreTemplates, ComesFromFile, SeenSince, WroteSince, CheckedOnce

\* A handler's way out that leaves the rows and the file alone.
LEMMA FinishUse ==
  ASSUME UseInv, UNCHANGED <<templates, file>>, NEW code, NEW shown,
         Finish(code, shown) \/ Fail(code)
  PROVE  UseInv'
<1>1. pc' = "idle"
  BY DEF Fail, Finish
<1>2. RowsAreTemplates' /\ FilesAreScaffolds'
  BY DEF UseInv, RowsAreTemplates, FilesAreScaffolds
<1> QED
  BY <1>1, <1>2, OverUse

\* On to a step for which the handler has looked something up.
LEMMA GotoUse ==
  ASSUME UseInv, UNCHANGED <<templates, file>>, pc # "idle", pc # "respond",
         NEW step \in {"name", "save", "stat", "write"}, NEW found, Goto(step, found),
         step \in {"stat", "write"} => \A t \in found : IsTemplate(t),
         step \in {"name", "save"} /\ call.id # Unset =>
           \E t \in seen \cup Builtin : t.id = call.id /\ FillsRequired(t, call.doc.slots)
  PROVE  UseInv'
<1>1. pc' = step /\ held' = found /\ UNCHANGED <<call, seen, reply>>
  BY DEF Goto
<1>2. Asked' /\ RowsAreTemplates' /\ FilesAreScaffolds' /\ HeldAreTemplates' /\ ComesFromFile' /\ WroteSince'
  BY <1>1 DEF UseInv, Asked, RowsAreTemplates, FilesAreScaffolds, HeldAreTemplates, ComesFromFile, WroteSince
<1>3. SeenSince'
  BY <1>1 DEF UseInv, SeenSince
<1>4. CheckedOnce'
  BY <1>1 DEF CheckedOnce
<1> QED
  BY <1>2, <1>3, <1>4 DEF UseInv

\* A request arrives: what there is at that moment has been seen.
LEMMA ReceiveUse ==
  ASSUME UseInv, Receive
  PROVE  UseInv'
<1>1. pc' = "begin" /\ UNCHANGED <<templates, file>> /\ seen' = {t \in templates : t.id = call'.id}
  BY DEF Receive, store
<1>2. PICK c \in Call :
        \/ c.from = "request" /\ call' = c
        \/ c.from = "file" /\ \E f \in file : call' = [c EXCEPT !.doc = f.doc,
                                                 !.id = IF @ = Unset THEN Unset ELSE f.template.id]
  BY DEF Receive
<1>3. c = [op |-> c.op, caller |-> c.caller, id |-> c.id, input |-> c.input, doc |-> c.doc,
           force |-> c.force, from |-> c.from]
  BY CallAssumption
<1>4. IsCall(call') /\ call'.input = c.input
  BY <1>2, <1>3 DEF IsCall
<1>5. Asked'
  BY <1>4 DEF Asked, Inputs, Receive
<1>6. ComesFromFile'
  <2>1. CASE c.from = "request" /\ call' = c
    BY <2>1 DEF ComesFromFile
  <2>2. ASSUME NEW f \in file, call' = [c EXCEPT !.doc = f.doc,
                                          !.id = IF @ = Unset THEN Unset ELSE f.template.id]
        PROVE  ComesFromFile'
    <3>1. call'.doc = f.doc
      BY <2>2, <1>3
    <3> QED
      BY <1>1, <3>1 DEF ComesFromFile
  <2> QED
    BY <1>2, <2>1, <2>2
<1>7. SeenSince' /\ WroteSince' /\ CheckedOnce' /\ HeldAreTemplates'
  BY <1>1 DEF SeenSince, WroteSince, CheckedOnce, HeldAreTemplates
<1>8. RowsAreTemplates' /\ FilesAreScaffolds'
  BY <1>1 DEF UseInv, RowsAreTemplates, FilesAreScaffolds
<1> QED
  BY <1>5, <1>6, <1>7, <1>8 DEF UseInv

\* The others write templates, and the client sees whatever they make of its id.
LEMMA OthersUse ==
  ASSUME UseInv, Others
  PROVE  UseInv'
<1>1. /\ seen' = seen \cup {t \in templates' : t.id = call.id}
      /\ UNCHANGED <<pc, call, held, reply, file>>
  BY DEF Others
<1>2. RowsAreTemplates'
  <2>1. CASE \E org \in Org, in \in Input : Accepted(in) /\ Insert(Row(NewId, org, Columns(in)))
    BY <2>1, ColumnsMakeTemplates DEF UseInv, RowsAreTemplates, Insert, Inputs
  <2>2. CASE \E t \in templates, in \in Input : Accepted(in) /\ Update(t, Columns(in))
    BY <2>2, ColumnsMakeTemplates DEF UseInv, RowsAreTemplates, Update, Updated, Inputs
  <2>3. CASE templates' \subseteq templates
    BY <2>3 DEF UseInv, RowsAreTemplates
  <2> QED
    BY <2>1, <2>2, <2>3 DEF Others, Delete
<1>3. SeenSince' /\ WroteSince'
  BY <1>1 DEF SeenSince, WroteSince
<1>4. CheckedOnce'
  BY <1>1 DEF UseInv, CheckedOnce
<1>5. Asked' /\ FilesAreScaffolds' /\ HeldAreTemplates' /\ ComesFromFile'
  BY <1>1 DEF UseInv, Asked, FilesAreScaffolds, HeldAreTemplates, ComesFromFile
<1> QED
  BY <1>2, <1>3, <1>4, <1>5 DEF UseInv

\* The author gives a scaffold its name.
LEMMA FillInUse ==
  ASSUME UseInv, FillIn
  PROVE  UseInv'
<1>1. pc' = "idle" /\ UNCHANGED templates
  BY DEF FillIn, store, client
<1>2. PICK f \in file, name \in FrameName :
        f.doc # Unparsable /\ f.doc.id.name = Unset /\ file' = {[f EXCEPT !.doc.id = Filled(@, name)]}
  BY DEF FillIn
<1>3. f = [doc |-> f.doc, template |-> f.template]
  BY DEF UseInv, FilesAreScaffolds, IsScaffold
<1>4. PICK id \in ScaffoldId, e \in Origin :
        f.doc = Doc(id, e.extends, <<>>, e.slots) /\ ~contentErrors(e.slots, e.extends)
  BY <1>2 DEF UseInv, FilesAreScaffolds, IsScaffold
<1>5. id = Fresh
  <2>1. id.name = Unset
    BY <1>2, <1>4 DEF Doc
  <2>2. \A n \in FrameName : Filled(Fresh, n).name = n
    BY DEF Filled, Fresh, NoIdentity
  <2>3. Unset \notin FrameName
    BY DocumentAssumption
  <2> QED
    BY <2>1, <2>2, <2>3 DEF ScaffoldId
<1>6. Filled(id, name) \in ScaffoldId
  BY <1>5 DEF ScaffoldId
<1>7. [f EXCEPT !.doc.id = Filled(@, name)]
        = [doc |-> Doc(Filled(id, name), e.extends, <<>>, e.slots), template |-> f.template]
  <2>1. [f EXCEPT !.doc.id = Filled(@, name)]
          = [doc |-> [f.doc EXCEPT !.id = Filled(@, name)], template |-> f.template]
    BY <1>3
  <2>2. [f.doc EXCEPT !.id = Filled(@, name)] = Doc(Filled(id, name), e.extends, <<>>, e.slots)
    BY <1>4 DEF Doc
  <2> QED
    BY <2>1, <2>2
<1>8. FilesAreScaffolds'
  BY <1>2, <1>4, <1>6, <1>7 DEF FilesAreScaffolds, IsScaffold
<1>9. RowsAreTemplates'
  BY <1>1 DEF UseInv, RowsAreTemplates
<1> QED
  BY <1>1, <1>8, <1>9, OverUse

\* A handler has written its row, the only one of the id it goes on with.
LEMMA WroteUse ==
  ASSUME UseInv, pc # "idle", NEW id, Wrote(id), UNCHANGED file, RowsAreTemplates',
         \A t \in templates' : t.id = id => Says(t, call.input)
  PROVE  UseInv'
<1>1. pc' = "respond" /\ call' = [call EXCEPT !.id = id] /\ UNCHANGED reply
  BY DEF Wrote
<1>2. IsCall(call) /\ call.input \in Inputs /\ reply.code = "none"
  BY DEF UseInv, Asked
<1>3. IsCall(call') /\ call'.input = call.input /\ call'.id = id
  BY <1>1, <1>2 DEF IsCall
<1>4. Asked'
  BY <1>1, <1>2, <1>3 DEF Asked
<1>5. WroteSince'
  BY <1>3 DEF WroteSince, Says
<1>6. FilesAreScaffolds' /\ HeldAreTemplates' /\ ComesFromFile' /\ SeenSince' /\ CheckedOnce'
  BY <1>1 DEF UseInv, FilesAreScaffolds, HeldAreTemplates, ComesFromFile, SeenSince, CheckedOnce
<1> QED
  BY <1>4, <1>5, <1>6 DEF UseInv

\* CreateFrameTemplate: no other row has the id it draws.
LEMMA CreateUse ==
  ASSUME IInv, UseInv, CreateFrameTemplate
  PROVE  UseInv'
<1>DEFINE org == call.caller.org
          row == Row(NewId, org, Columns(call.input))
<1>1. UNCHANGED file /\ pc # "idle" /\ call.input \in Inputs
  BY DEF CreateFrameTemplate, UseInv, Asked
<1>2. CASE (Refused \/ Fail("invalid_argument") \/ Fail("already_exists")) /\ UNCHANGED store
  BY <1>1, <1>2, FinishUse DEF Refused, store
<1>3. CASE Accepted(call.input) /\ TemplateId # spent /\ Insert(row) /\ Wrote(NewId)
  <2>1. templates' = templates \cup {row}
    BY <1>3 DEF Insert
  <2>2. RowsAreTemplates'
    BY <1>1, <1>3, <2>1, ColumnsMakeTemplates DEF UseInv, RowsAreTemplates
  <2>3. \A t \in templates : t.id # NewId
    BY <1>3, FreshId DEF IInv, IdsSpent
  <2>4. Says(row, call.input)
    BY <1>1, ColumnsSay
  <2> HIDE DEF row
  <2> QED
    BY <1>1, <1>3, <2>1, <2>2, <2>3, <2>4, WroteUse
<1> QED
  BY <1>2, <1>3 DEF CreateFrameTemplate

\* UpdateFrameTemplate: no other row has the id of the one it replaces.
LEMMA UpdateUse ==
  ASSUME IInv, UseInv, UpdateFrameTemplate
  PROVE  UseInv'
<1>1. UNCHANGED file /\ pc # "idle" /\ call.input \in Inputs
  BY DEF UpdateFrameTemplate, UseInv, Asked
<1>2. CASE /\ \/ Refused \/ Fail("invalid_argument") \/ Fail("not_found")
              \/ Fail("already_exists")
           /\ UNCHANGED store
  BY <1>1, <1>2, FinishUse DEF Refused, store
<1>3. ASSUME Accepted(call.input), NEW old \in Matching(call.caller.org, call.id),
             Update(old, Columns(call.input)), Wrote(old.id)
      PROVE  UseInv'
  <2>DEFINE row == Row(old.id, old.org, Columns(call.input))
  <2>1. templates' = (templates \ {old}) \cup {row}
    BY <1>3 DEF Update, Updated
  <2>2. RowsAreTemplates'
    BY <1>1, <1>3, <2>1, ColumnsMakeTemplates DEF UseInv, RowsAreTemplates
  <2>3. \A t \in templates \ {old} : t.id # old.id
    BY <1>3 DEF IInv, TitlesUnique, Matching, RowsOf
  <2>4. Says(row, call.input)
    BY <1>1, ColumnsSay
  <2> HIDE DEF row
  <2> QED
    BY <1>1, <1>3, <2>1, <2>2, <2>3, <2>4, WroteUse
<1> QED
  BY <1>2, <1>3 DEF UpdateFrameTemplate

\* The handlers that end in one step, and the ends of the others.
LEMMA EndUse ==
  ASSUME UseInv,
         \/ ListFrameTemplates \/ GetFrameTemplate \/ RespondWithRow \/ DeleteFrameTemplate
         \/ SaveFrame \/ StoreError
  PROVE  UseInv'
<1>1. UNCHANGED file /\ pc' = "idle"
  BY DEF ListFrameTemplates, GetFrameTemplate, RespondWithRow, DeleteFrameTemplate, SaveFrame, StoreError,
     Refused, Fail, Finish
<1>2. templates' \subseteq templates
  BY DEF ListFrameTemplates, GetFrameTemplate, RespondWithRow, DeleteFrameTemplate, SaveFrame, StoreError,
     store, Delete
<1>3. RowsAreTemplates' /\ FilesAreScaffolds'
  BY <1>1, <1>2 DEF UseInv, RowsAreTemplates, FilesAreScaffolds
<1> QED
  BY <1>1, <1>3, OverUse

\* What the caller finds under its id is a template, and it has seen it.
LEMMA FoundIsTemplate ==
  ASSUME UseInv, pc = "begin", NEW t \in lookupTemplate
  PROVE  IsTemplate(t) /\ t.id = call.id /\ t \in seen \cup Builtin
<1>1. CASE t \in Builtin /\ t.id = call.id
  BY <1>1, BuiltinsAreTemplates
<1>2. CASE t \in templates /\ t.id = call.id
  BY <1>2 DEF UseInv, RowsAreTemplates, SeenSince
<1> QED
  BY <1>1, <1>2 DEF lookupTemplate, Matching, RowsOf

\* Whatever passes the check fills what the template requires.
LEMMA CheckedFills ==
  ASSUME NEW t, IsTemplate(t), NEW slots, Check(t, slots) = {}
  PROVE  FillsRequired(t, slots)
  BY ContentFills DEF IsTemplate, Check, FillsRequired

\* Publishing with a template in mind, up to the insert.
LEMMA PublishUse ==
  ASSUME UseInv, Publish \/ FindFrame
  PROVE  UseInv'
<1>1. UNCHANGED <<templates, file>>
  BY DEF Publish, FindFrame, store
<1>2. CASE \E code : Fail(code)
  BY <1>1, <1>2, FinishUse
<1>3. CASE Publish /\ Goto("name", {})
  <2>1. pc = "begin" /\ (call.id # Unset => lookupTemplate # {})
        /\ \A t \in lookupTemplate : Check(t, call.doc.slots) = {}
    BY <1>3 DEF Publish, Goto, Fail, Finish
  <2>2. call.id # Unset =>
          \E t \in seen \cup Builtin : t.id = call.id /\ FillsRequired(t, call.doc.slots)
    BY <2>1, FoundIsTemplate, CheckedFills
  <2> QED
    BY <1>1, <1>3, <2>1, <2>2, GotoUse
<1>4. CASE FindFrame /\ \E found : Goto("save", found)
  <2>1. pc = "name"
    BY <1>4 DEF FindFrame
  <2>2. call.id # Unset =>
          \E t \in seen \cup Builtin : t.id = call.id /\ FillsRequired(t, call.doc.slots)
    BY <2>1 DEF UseInv, CheckedOnce
  <2> QED
    BY <1>1, <1>4, <2>1, <2>2, GotoUse
<1> QED
  BY <1>2, <1>3, <1>4 DEF Publish, FindFrame

\* `frames template init` writes what the template has, if its guidance lets it.
LEMMA InitUse ==
  ASSUME UseInv, TemplateInit \/ Stat \/ WriteScaffold
  PROVE  UseInv'
<1>1. CASE UNCHANGED <<templates, file>> /\ \E code : Fail(code)
  BY <1>1, FinishUse
<1>2. CASE TemplateInit /\ Goto("stat", lookupTemplate)
  <2>1. pc = "begin" /\ UNCHANGED <<templates, file>>
    BY <1>2 DEF TemplateInit, store
  <2> QED
    BY <1>2, <2>1, FoundIsTemplate, GotoUse
<1>3. CASE Stat /\ Goto("write", held)
  <2>1. pc = "stat" /\ UNCHANGED <<templates, file>>
    BY <1>3 DEF Stat, store
  <2>2. \A t \in held : IsTemplate(t)
    BY <2>1 DEF UseInv, HeldAreTemplates
  <2> QED
    BY <1>3, <2>1, <2>2, GotoUse
<1>4. CASE WriteScaffold
  <2>1. /\ file' = {[doc |-> scaffoldBody(t), template |-> t] : t \in held}
        /\ pc' = "idle" /\ UNCHANGED templates
    BY <1>4 DEF WriteScaffold, Finish, store
  <2>2. ASSUME NEW t \in held PROVE IsScaffold([doc |-> scaffoldBody(t), template |-> t])
    <3>1. IsTemplate(t)
      BY <1>4 DEF WriteScaffold, UseInv, HeldAreTemplates
    <3>2. CASE ~Commented(t)
      BY <3>2 DEF IsScaffold, scaffoldBody
    <3>3. CASE Commented(t)
      <4>1. PICK e \in Origin : t.extends = e.extends /\ t.slots = e.slots
        BY <3>1 DEF IsTemplate
      <4>2. scaffoldBody(t) = Doc(Fresh, e.extends, <<>>, e.slots)
        BY <3>3, <4>1 DEF scaffoldBody
      <4>3. ~contentErrors(e.slots, e.extends) /\ Fresh \in ScaffoldId
        BY <3>1, <4>1 DEF IsTemplate, ScaffoldId
      <4> QED
        BY <4>2, <4>3 DEF IsScaffold
    <3> QED
      BY <3>2, <3>3
  <2>3. FilesAreScaffolds'
    BY <2>1, <2>2 DEF FilesAreScaffolds
  <2>4. RowsAreTemplates'
    BY <2>1 DEF UseInv, RowsAreTemplates
  <2> QED
    BY <2>1, <2>3, <2>4, OverUse
<1> QED
  BY <1>1, <1>2, <1>3, <1>4 DEF TemplateInit, Stat, WriteScaffold, store

\* No step of anybody breaks it.
LEMMA UseSteps == IInv /\ UseInv /\ [Next]_vars => UseInv'
<1> SUFFICES ASSUME IInv, UseInv, [Next]_vars PROVE UseInv'
  OBVIOUS
<1>1. CASE Handler
  BY <1>1, CreateUse, UpdateUse, EndUse, PublishUse, InitUse DEF Handler
<1>2. CASE Convert \/ UNCHANGED vars
  <2>1. UNCHANGED <<templates, pc, call, held, reply, seen, file>>
    BY <1>2 DEF Convert, vars, store, client
  <2> QED
    BY <2>1 DEF UseInv, Asked, RowsAreTemplates, FilesAreScaffolds, HeldAreTemplates, ComesFromFile,
       SeenSince, WroteSince, CheckedOnce
<1> QED
  BY <1>1, <1>2, ReceiveUse, FillInUse, OthersUse DEF Next

\* Requests, rows and scaffolds are what the steps above take them for.
THEOREM Use == Spec => [](IInv /\ UseInv)
<1>1. Init => IInv /\ UseInv
  BY DEF Init, IInv, IdsSpent, TitlesUnique, NothingShown, UseInv, Asked, RowsAreTemplates,
     FilesAreScaffolds, HeldAreTemplates, ComesFromFile, SeenSince, WroteSince, CheckedOnce
<1>2. IInv /\ UseInv /\ [Next]_vars => IInv' /\ UseInv'
  BY Steps, UseSteps
<1> QED
  BY <1>1, <1>2, PTL DEF Spec

\* The only row under an id is what the admin saved there, or has been seen to
\* become something else (respondWithRow, after any writes of others).
THEOREM RepliesStored == Spec => ReplyIsStored
<1>DEFINE A == pc = "respond" /\ ClientStep /\ reply'.code = "ok" =>
                 \A t \in reply'.shown : t \in seen \/ Says(t, call.input)
<1>1. IInv /\ UseInv /\ [Next]_vars => [A]_vars
  <2> SUFFICES ASSUME UseInv, Next, pc = "respond", ClientStep, reply'.code = "ok",
                      NEW t \in reply'.shown
               PROVE  t \in seen \/ Says(t, call.input)
    OBVIOUS
  <2>1. RespondWithRow \/ StoreError
    BY DEF Next, Handler, Receive, FillIn, Convert, Others, ClientStep, client, ListFrameTemplates,
       GetFrameTemplate, CreateFrameTemplate, UpdateFrameTemplate, DeleteFrameTemplate, Publish, FindFrame,
       SaveFrame, TemplateInit, Stat, WriteScaffold
  <2>2. reply'.shown \subseteq Matching(call.caller.org, call.id)
    BY <2>1 DEF RespondWithRow, StoreError, Fail, Finish
  <2>3. t \in templates /\ t.id = call.id
    BY <2>2 DEF Matching, RowsOf
  <2> QED
    BY <2>3 DEF UseInv, WroteSince
<1> QED
  BY <1>1, Use, PTL DEF Spec, ReplyIsStored

\* No required section stays empty in a frame made from a template, though the
\* template is changed between the check and the insert (SaveFrame).
THEOREM SectionsFilled == Spec => RequiredSections
<1>DEFINE A == (ClientStep /\ pc # "idle" /\ frames' # frames /\ call.id # Unset) =>
                 \E t \in seen \cup Builtin :
                   /\ t.id = call.id
                   /\ \A k \in DOMAIN t.rules :
                        t.rules[k].level = "required" => Fills(k, call.doc.slots[k])
<1>1. IInv /\ UseInv /\ [Next]_vars => [A]_vars
  <2> SUFFICES ASSUME UseInv, Next, ClientStep, pc # "idle", frames' # frames, call.id # Unset
               PROVE  A
    OBVIOUS
  <2>1. pc = "save"
    BY DEF Next, Handler, Receive, FillIn, Convert, Others, ClientStep, store, ListFrameTemplates,
       GetFrameTemplate, RespondWithRow, CreateFrameTemplate, UpdateFrameTemplate, DeleteFrameTemplate,
       Publish, FindFrame, SaveFrame, TemplateInit, Stat, WriteScaffold, StoreError
  <2> QED
    BY <2>1 DEF UseInv, CheckedOnce, FillsRequired
<1> QED
  BY <1>1, Use, PTL DEF Spec, RequiredSections

\* A scaffold that has been given a name is valid, and any slot it was started
\* with still is; only the template's own requirements, or guidance that leaves
\* its comment, can refuse it (Publish).
LEMMA NamedScaffoldIsValid ==
  ASSUME NEW f, IsScaffold(f), f.doc # Unparsable, f.doc.id.name # Unset
  PROVE  Valid(f.doc)
<1>1. PICK id \in ScaffoldId, e \in Origin :
        f.doc = Doc(id, e.extends, <<>>, e.slots) /\ ~contentErrors(e.slots, e.extends)
  BY DEF IsScaffold
<1>2. f.doc.id = id /\ f.doc.slots = e.slots /\ f.doc.extends = e.extends
  BY <1>1 DEF Doc
<1>3. Fresh.name = Unset
  BY DEF Fresh, NoIdentity
<1>4. PICK name \in FrameName : id = Filled(Fresh, name)
  BY <1>2, <1>3 DEF ScaffoldId
<1>5. /\ id.name = name /\ id.description = "filled in"
      /\ id.version = <<"1.0.0">> /\ id.visibility = Unset
  BY <1>4 DEF Filled, Fresh, NoIdentity
<1>6. "filled in" # Unset
  BY Zenon DEF Unset
<1>7. ~BlankLine(<<"1.0.0">>)
  <2>1. "1.0.0" \in ToSet(<<"1.0.0">>)
    BY DEF ToSet
  <2>2. "1.0.0" \notin Spaces
    BY DEF Spaces, Indent
  <2> QED
    BY <2>1, <2>2 DEF BlankLine
<1> QED
  BY <1>1, <1>2, <1>5, <1>6, <1>7 DEF Valid

\* What `frames template init` wrote and an author named is refused only for the
\* reasons ScaffoldPublishes names, whatever the template has become meanwhile.
THEOREM ScaffoldsPublish == Spec => ScaffoldPublishes
<1>DEFINE A == (/\ pc = "begin" /\ ClientStep /\ call.op = "publish" /\ call.from = "file"
                /\ call.doc # Unparsable => call.doc.id.name # Unset
                /\ reply'.code = "invalid_argument") =>
                 \E f \in file :
                   \/ ~Commented(f.template)
                   \/ call.id # Unset /\ \A t \in Builtin \cup RowsOf(call.caller.org) :
                        t.id = call.id => \E k \in DOMAIN t.rules : t.rules[k].level = "required"
                                                                   /\ ~Fills(k, call.doc.slots[k])
<1>1. IInv /\ UseInv /\ [Next]_vars => [A]_vars
  <2> SUFFICES ASSUME IInv, UseInv, Next, pc = "begin", ClientStep, call.op = "publish",
                      call.from = "file", call.doc # Unparsable => call.doc.id.name # Unset,
                      reply'.code = "invalid_argument"
               PROVE  A
    OBVIOUS
  <2>1. Publish \/ StoreError
    BY DEF Next, Handler, Receive, FillIn, Convert, Others, ClientStep, client, ListFrameTemplates,
       GetFrameTemplate, CreateFrameTemplate, UpdateFrameTemplate, DeleteFrameTemplate, RespondWithRow,
       FindFrame, SaveFrame, TemplateInit, Stat, WriteScaffold
  <2>2. Publish
    BY <2>1 DEF StoreError, Fail, Finish
  <2>3. \/ call.doc = Unparsable \/ ~Valid(call.doc)
        \/ call.id # Unset /\ lookupTemplate = {}
        \/ \E t \in lookupTemplate : Check(t, call.doc.slots) # {}
    BY <2>2 DEF Publish, Fail, Finish, Goto, UseInv, Asked
  <2>4. PICK f \in file : call.doc = f.doc
    BY DEF UseInv, ComesFromFile
  <2>5. IsScaffold(f)
    BY DEF UseInv, FilesAreScaffolds
  <2>6. CASE call.doc = Unparsable
    <3>1. ~Commented(f.template)
      BY <2>4, <2>5, <2>6, CallAssumption DEF IsScaffold
    <3> QED
      BY <3>1
  <2>7. CASE call.doc # Unparsable /\ ~Valid(call.doc)
    BY <2>4, <2>5, <2>7, NamedScaffoldIsValid
  <2>8. CASE call.id # Unset /\ lookupTemplate = {}
    <3>1. \A t \in Builtin \cup RowsOf(call.caller.org) : t.id # call.id
      BY <2>8 DEF lookupTemplate, Matching
    <3> QED
      BY <2>8, <3>1
  <2>9. ASSUME NEW t \in lookupTemplate, Check(t, call.doc.slots) # {}
        PROVE  A
    <3>1. t \in Builtin \cup RowsOf(call.caller.org) /\ t.id = call.id
      BY DEF lookupTemplate, Matching
    <3>2. call.id # Unset
      BY <3>1, TemplatesAssumption DEF RowsOf, IInv, IdsSpent
    <3>3. \A u \in Builtin \cup RowsOf(call.caller.org) : u.id = call.id => u = t
      BY <3>1, TemplatesAssumption DEF RowsOf, IInv, IdsSpent, TitlesUnique
    <3>4. \E k \in DOMAIN t.rules : t.rules[k].level = "required" /\ ~Fills(k, call.doc.slots[k])
      BY <2>9, ContentFills DEF Check
    <3> QED
      BY <3>2, <3>3, <3>4
  <2> QED
    BY <2>3, <2>6, <2>7, <2>8, <2>9
<1> QED
  BY <1>1, Use, PTL DEF Spec, ScaffoldPublishes

-----------------------------------------------------------------------------
(* The editor: what is on the screen is what it was brought there from, in *)
(* the other form.                                                         *)

\* Two sides that say the same.
InStep(s) ==
  /\ IsDoc(s.doc) /\ IsFile(s.markdown)
  /\ WordsInBody(s.markdown.body) = UNION {WordsIn(k, s.doc.slots[k]) : k \in Key}

ScreenInv == \A s \in screen : InStep(s)

\* A document written as a file.
LEMMA WrittenInStep ==
  ASSUME NEW doc, IsDoc(doc)
  PROVE  InStep([doc |-> doc, markdown |-> MarshalMarkdown(doc)])
<1>DEFINE written == MarshalMarkdown(doc)
<1>1. /\ written.body \in Seq(Line) /\ IsIdentity(written.front.id)
      /\ \A w : w \in WordsInBody(written.body) <=> \E k \in Key : w \in WordsIn(k, doc.slots[k])
  BY WritingKeepsWords DEF IsDoc
<1> HIDE DEF written
<1>2. WordsInBody(written.body) = UNION {WordsIn(k, doc.slots[k]) : k \in Key}
  BY <1>1
<1>3. IsFile(written)
  <2>1. written.front.inherits \in Seq(Line)
    <3>1. doc.extends \in Seq(Reference)
      BY DEF IsDoc
    <3>2. written.front.inherits = [i \in DOMAIN doc.extends |-> Inherit(doc.extends[i])]
      BY DEF MarshalMarkdown, written
    <3> QED
      BY <3>1, <3>2, InheritsAreLines
  <2> QED
    BY <1>1, <2>1 DEF IsFile
<1> QED
  BY <1>2, <1>3 DEF InStep, written

\* A file read as a document.
LEMMA ReadInStep ==
  ASSUME NEW f, IsFile(f), WellFormed(f)
  PROVE  InStep([doc |-> UnmarshalMarkdown(f), markdown |-> f])
<1>DEFINE doc == UnmarshalMarkdown(f)
<1>1. f.body \in Seq(Line) /\ IsIdentity(f.front.id)
  BY DEF IsFile, WellFormed
<1>2. /\ \A k \in Key : doc.slots[k] \in SlotType(k)
      /\ doc.id = f.front.id
      /\ \A w : w \in WordsInBody(f.body) <=> \E k \in Key : w \in WordsIn(k, doc.slots[k])
  BY <1>1, ReadingKeepsWords
<1> HIDE DEF doc
<1>3. WordsInBody(f.body) = UNION {WordsIn(k, doc.slots[k]) : k \in Key}
  BY <1>2
<1>4. IsDoc(doc)
  <2>1. doc.extends \in Seq(Reference)
    <3>1. f.front.inherits \in Seq(Line)
      BY DEF IsFile, WellFormed
    <3>2. doc.extends = [i \in DOMAIN f.front.inherits |-> parseInherit(f.front.inherits[i])]
      BY DEF UnmarshalMarkdown, Doc, doc
    <3> QED
      BY <3>1, <3>2, ParentsAreReferences
  <2>2. doc = Doc(doc.id, doc.extends, doc.excludes, doc.slots)
    BY DEF UnmarshalMarkdown, Doc, doc
  <2> QED
    BY <1>1, <1>2, <2>1, <2>2 DEF IsDoc
<1> QED
  BY <1>3, <1>4 DEF InStep, doc

\* Either side of the screen may be brought there, from without or from the other.
LEMMA ConvertInStep ==
  ASSUME ScreenInv, Convert
  PROVE  ScreenInv'
<1>1. CASE \E s \in Screen : /\ s.doc # Unparsable
                            /\ screen' = {[doc |-> s.doc, markdown |-> MarshalMarkdown(s.doc)]}
  BY <1>1, ScreenAssumption, WrittenInStep DEF ScreenInv
<1>2. CASE \E s \in Screen : /\ WellFormed(s.markdown)
                            /\ screen' = {[doc |-> UnmarshalMarkdown(s.markdown), markdown |-> s.markdown]}
  BY <1>2, ScreenAssumption, ReadInStep DEF ScreenInv
<1>3. CASE \E s \in screen : screen' = {[doc |-> s.doc, markdown |-> MarshalMarkdown(s.doc)]}
  <2>1. PICK s \in screen : screen' = {[doc |-> s.doc, markdown |-> MarshalMarkdown(s.doc)]}
    BY <1>3
  <2>2. InStep([doc |-> s.doc, markdown |-> MarshalMarkdown(s.doc)])
    BY WrittenInStep DEF ScreenInv, InStep
  <2> QED
    BY <2>1, <2>2 DEF ScreenInv
<1>4. CASE \E s \in screen : /\ WellFormed(s.markdown)
                            /\ screen' = {[doc |-> UnmarshalMarkdown(s.markdown), markdown |-> s.markdown]}
  <2>1. PICK s \in screen : /\ WellFormed(s.markdown)
                            /\ screen' = {[doc |-> UnmarshalMarkdown(s.markdown), markdown |-> s.markdown]}
    BY <1>4
  <2>2. InStep([doc |-> UnmarshalMarkdown(s.markdown), markdown |-> s.markdown])
    BY <2>1, ReadInStep DEF ScreenInv, InStep
  <2> QED
    BY <2>1, <2>2 DEF ScreenInv
<1> QED
  BY <1>1, <1>2, <1>3, <1>4 DEF Convert

\* Whatever the editor has done, its two sides are a document and a file, and say
\* the same (ConvertFrame).
THEOREM Screens == Spec => []ScreenInv
<1>1. Init => ScreenInv
  BY DEF Init, ScreenInv
<1>2. ScreenInv /\ [Next]_vars => ScreenInv'
  <2> SUFFICES ASSUME ScreenInv, [Next]_vars PROVE ScreenInv'
    OBVIOUS
  <2>1. CASE Convert
    BY <2>1, ConvertInStep
  <2>2. CASE UNCHANGED screen
    BY <2>2 DEF ScreenInv
  <2>3. CASE Receive
    BY <2>3 DEF Receive, ScreenInv
  <2> QED
    BY <2>1, <2>2, <2>3 DEF Next, FillIn, Others, vars
<1> QED
  BY <1>1, <1>2, PTL DEF Spec

\* No conversion of the editor drops or adds a word of what the author wrote,
\* whichever way and however often it converts, for any lines of any text and
\* any slots (MarshalMarkdown, UnmarshalMarkdown and all they call).
THEOREM ConversionsKeepWords == Spec => []NothingLost
<1>1. ScreenInv => NothingLost
  BY DEF ScreenInv, InStep, NothingLost
<1> QED
  BY <1>1, Screens, PTL

\* A document that markdown can hold is accepted again when it has been written,
\* and comes back from it line by line, for any slots, any parents and any text:
\* lines that look like items, terms or headings among them (MarshalMarkdown,
\* UnmarshalMarkdown and all they call).
THEOREM DocumentsComeBack == Spec => []RoundTrip
<1>1. ScreenInv => RoundTrip
  <2> SUFFICES ASSUME ScreenInv, NEW s \in screen, s.markdown = MarshalMarkdown(s.doc), Expressible(s.doc)
               PROVE  /\ WellFormed(s.markdown)
                      /\ UnmarshalMarkdown(s.markdown)
                           = [s.doc EXCEPT !.slots = [k \in Key |-> ReadBack(k, s.doc.slots[k])]]
    BY DEF RoundTrip
  <2>1. IsDoc(s.doc)
    BY DEF ScreenInv, InStep
  <2> QED
    BY <2>1, DocumentComesBack DEF IsDoc
<1> QED
  BY <1>1, Screens, PTL

=============================================================================
