----------------------------- MODULE Templates -----------------------------
(***************************************************************************)
(* Writing a frame from a template: the five template handlers, the check  *)
(* of a template's required slots when a frame is created, the scaffold    *)
(* that `frames template init` writes, and the conversions of the editor   *)
(* (backend/internal/frames/templates_service.go, templates.go,            *)
(* service.go; cli/cmd/template.go, publish.go).                           *)
(*                                                                         *)
(* One client is seen in detail, one repository call per step.  What other *)
(* handlers do shows in the store alone, one statement at a time: a write  *)
(* of theirs may come between any two steps of the client's.               *)
(***************************************************************************)
EXTENDS Markdown

CONSTANTS
  Org,         \* organizations
  Caller,      \* resolved callers: a subject, an organization and a role
  TemplateId,  \* bound: the ids newID may return for templates
  Builtin,     \* the templates compiled into the binary
  Call,        \* what the client may ask for
  Input,       \* what other admins save as templates
  Screen       \* what a markdown file may be imported from

\* What is asked to be saved as a template.
Inputs == Input \cup {c.input : c \in Call}

\* What a template may put into a scaffold: nothing, a prefill, or a built-in.
Origin == {[extends |-> <<>>, slots |-> NoContent]}
          \cup {[extends |-> p.extends, slots |-> p.slots] : p \in UNION {in.prefill : in \in Inputs}}
          \cup {[extends |-> b.extends, slots |-> b.slots] : b \in Builtin}

\* The built-ins are valid templates, and ids tell templates apart.
ASSUME TemplatesAssumption ==
  /\ \A b, c \in Builtin : b.id = c.id => b = c
  /\ \A b \in Builtin :
       /\ b.id \notin TemplateId \cup {Unset}
       /\ DOMAIN b.rules \subseteq Key /\ ~contentErrors(b.slots, b.extends)
  /\ Unset \notin TemplateId

\* What a scaffold says of the frame, as written and once the author has been at it.
Fresh == [NoIdentity EXCEPT !.version = <<"1.0.0">>]
Filled(id, name) == [id EXCEPT !.name = name, !.description = "filled in"]
ScaffoldId == {Fresh} \cup {Filled(Fresh, name) : name \in FrameName}

\* What can be on the editor's screen: a document, and a file whose frontmatter
\* holds an identity and parents if it can be read.
IsDoc(doc) ==
  /\ doc = Doc(doc.id, doc.extends, doc.excludes, doc.slots)
  /\ IsIdentity(doc.id) /\ doc.extends \in Seq(Reference)
  /\ \A k \in Key : doc.slots[k] \in SlotType(k)

IsFile(f) ==
  /\ f.body \in Seq(Line)
  /\ f.front # NoFrontmatter => IsIdentity(f.front.id) /\ f.front.inherits \in Seq(Line)

ASSUME ScreenAssumption ==
  \A s \in Screen : (s.doc # Unparsable => IsDoc(s.doc)) /\ IsFile(s.markdown)

\* A request is a record of these fields, its input one prefill at most and rules
\* of a level and a note.  A scaffold is not the content that does not parse.
ASSUME CallAssumption ==
  /\ \A c \in Call : c = [op |-> c.op, caller |-> c.caller, id |-> c.id, input |-> c.input,
                         doc |-> c.doc, force |-> c.force, from |-> c.from]
  /\ \A in \in Inputs :
       /\ \A p, q \in in.prefill : p = q
       /\ \A k \in DOMAIN in.rules : in.rules[k] = [level |-> in.rules[k].level, note |-> in.rules[k].note]
  /\ \A id \in ScaffoldId, e \in Origin : Doc(id, e.extends, <<>>, e.slots) # Unparsable

VARIABLES
  templates,  \* the rows of frame_templates
  spent,      \* the ids that have been given out
  frames,     \* the frames, by organization, name and owner
  pc,         \* the client's next step
  call,       \* what it asked for
  held,       \* a local of the handler: the template or frame it looked up
  reply,      \* how the last request ended and the templates it showed
  file,       \* frame.yaml in the client's directory
  screen,     \* what the editor shows: a document and its markdown form
  seen        \* history: the rows the call's id has had since the client's last write

store == <<templates, spent, frames>>
client == <<pc, call, held, reply, seen>>
vars == <<store, client, file, screen>>

-----------------------------------------------------------------------------
(* Templates.                                                              *)

\* An unspecified level reads as optional.
requirementFromProto(level) == IF level \in {"recommended", "required"} THEN level ELSE "optional"

\* Whether anything has been entered, be it spaces.
MutslotHasContent(k, slot) == slot # NoContent[k]

slotHasContent(k, slot) ==
  CASE KindOf[k] = "terms" -> \E i \in DOMAIN slot : ~BlankLine(slot[i].term) /\ ~Blank(slot[i].definition)
    [] KindOf[k] = "list"  -> \E i \in DOMAIN slot : ~Blank(slot[i])
    [] KindOf[k] = "prose" -> ~Blank(slot)

\* Template.Check: the required slots the document leaves empty.
Check(t, slots) ==
  {k \in Key : k \in DOMAIN t.rules /\ t.rules[k].level = "required" /\ ~slotHasContent(k, slots[k])}

\* ParsePrefill: a template sets no identity and excludes nothing.
ParsePrefill(doc) == doc # Unparsable /\ doc.id = NoIdentity /\ doc.excludes = <<>>

\* A prefill that parses will do.
MutAccepted(in) ==
  /\ ~BlankLine(in.title) /\ ~Blank(in.description)
  /\ \A p \in in.prefill : ParsePrefill(p)
  /\ DOMAIN in.rules \subseteq Key

\* validateTemplateInput; a prefill may be left out, a rule names a slot.
Accepted(in) ==
  /\ ~BlankLine(in.title) /\ ~Blank(in.description)
  /\ \A p \in in.prefill : ParsePrefill(p) /\ ~contentErrors(p.slots, p.extends)
  /\ DOMAIN in.rules \subseteq Key

\* The columns an admin fills.
Columns(in) ==
  [title |-> TrimLine(in.title), description |-> TrimSpace(in.description),
   extends |-> IF in.prefill = {} THEN <<>> ELSE (CHOOSE p \in in.prefill : TRUE).extends,
   slots |-> IF in.prefill = {} THEN NoContent ELSE (CHOOSE p \in in.prefill : TRUE).slots,
   rules |-> [k \in DOMAIN in.rules |-> [in.rules[k] EXCEPT !.level = requirementFromProto(@)]]]

-----------------------------------------------------------------------------
(* The table frame_templates.                                              *)

RowsOf(org) == {t \in templates : t.org = org}

\* Rows found by their id alone.
MutMatching(org, id) == {t \in templates : t.id = id}

\* WHERE id = ? AND org_id = ?.
Matching(org, id) == {t \in RowsOf(org) : t.id = id}

\* UNIQUE (org_id, title), met by a row that is to replace those in old.
MutTitleTaken(org, title, old) == old = {} /\ \E t \in RowsOf(org) : t.title = title
TitleTaken(org, title, old) == \E t \in RowsOf(org) \ old : t.title = title

Row(id, org, columns) ==
  [id |-> id, org |-> org, title |-> columns.title, description |-> columns.description,
   extends |-> columns.extends, slots |-> columns.slots, rules |-> columns.rules]

\* A fresh id, whichever.
NewId == CHOOSE id \in TemplateId : id \notin spent

Insert(row) ==
  /\ templates' = templates \cup {row}
  /\ spent' = spent \cup {row.id}

\* The columns an UPDATE sets.
MutUpdated(old, columns) == Row(old.id, old.org, [columns EXCEPT !.rules = old.rules])
Updated(old, columns) == Row(old.id, old.org, columns)

Update(old, columns) ==
  /\ templates' = (templates \ {old}) \cup {Updated(old, columns)}
  /\ UNCHANGED spent

Delete(rows) == templates' = templates \ rows /\ UNCHANGED spent

\* The frame of that name, as a set of at most one.
GetFrameBySlugName(org, name) == {f \in frames : f.org = org /\ f.name = name}

FrameOf(caller, name) == [org |-> caller.org, name |-> name, owner |-> caller.sub]

-----------------------------------------------------------------------------
(* Everybody else: a statement of another handler that has got that far.   *)

\* Before the client's first step it is as good as there already.
Others ==
  /\ pc # "idle"
  /\ \/ \E org \in Org, in \in Input :
          /\ Accepted(in) /\ ~TitleTaken(org, Columns(in).title, {}) /\ TemplateId # spent
          /\ Insert(Row(NewId, org, Columns(in)))
          /\ UNCHANGED frames
     \/ \E t \in templates, in \in Input :
          /\ Accepted(in) /\ ~TitleTaken(t.org, Columns(in).title, {t})
          /\ Update(t, Columns(in))
          /\ UNCHANGED frames
     \/ \E t \in templates : Delete({t}) /\ UNCHANGED frames
     \/ \E c \in Caller, name \in FrameName :
          /\ c.role # "viewer" /\ GetFrameBySlugName(c.org, name) = {}
          /\ frames' = frames \cup {FrameOf(c, name)}
          /\ UNCHANGED <<templates, spent>>
  /\ seen' = seen \cup {t \in templates' : t.id = call.id}
  /\ UNCHANGED <<pc, call, held, reply, file, screen>>

-----------------------------------------------------------------------------
(* Steps a handler is made of.                                             *)

\* The value of call while nothing is asked for; it means nothing.
NoCall == CHOOSE c \in Call : TRUE

Finish(code, shown) ==
  /\ pc' = "idle" /\ held' = {} /\ call' = NoCall /\ seen' = {}
  /\ reply' = [code |-> code, shown |-> shown]

Fail(code) == Finish(code, {})

\* On to another step with what has been looked up.
Goto(step, found) ==
  /\ pc' = step /\ held' = found
  /\ UNCHANGED <<call, reply, seen>>

\* A request arrives, its caller resolved; the editor and the last reply are
\* gone.  A frame.yaml that is published comes from the client's directory.
Receive ==
  /\ pc = "idle" /\ pc' = "begin"
  /\ \E c \in Call :
       \/ c.from = "request" /\ call' = c
       \/ /\ c.from = "file" /\ file # {}
          /\ \E f \in file : call' = [c EXCEPT !.doc = f.doc,
                                            !.id = IF @ = Unset THEN Unset ELSE f.template.id]
  /\ held' = {} /\ reply' = [code |-> "none", shown |-> {}] /\ screen' = {}
  /\ seen' = {t \in templates : t.id = call'.id}
  /\ UNCHANGED <<store, file>>

\* requireAdmin.
Refused == call.caller.role # "admin" /\ Fail("permission_denied")
IsAdmin == call.caller.role = "admin"

\* A built-in, or a row of the caller's own organization.
lookupTemplate == {b \in Builtin : b.id = call.id} \cup Matching(call.caller.org, call.id)

ListFrameTemplates ==
  /\ pc = "begin" /\ call.op = "list"
  /\ Finish("ok", Builtin \cup RowsOf(call.caller.org))
  /\ UNCHANGED <<store, file>>

GetFrameTemplate ==
  /\ pc = "begin" /\ call.op = "get"
  /\ \/ lookupTemplate = {} /\ Fail(IF call.id = Unset THEN "invalid_argument" ELSE "not_found")
     \/ lookupTemplate # {} /\ Finish("ok", lookupTemplate)
  /\ UNCHANGED <<store, file>>

\* After its write the handler reads the row back.
Wrote(id) ==
  /\ pc' = "respond" /\ call' = [call EXCEPT !.id = id] /\ seen' = {}
  /\ UNCHANGED <<held, reply>>

CreateFrameTemplate ==
  /\ pc = "begin" /\ call.op = "create"
  /\ LET new == Columns(call.input)
         taken == TitleTaken(call.caller.org, new.title, {}) IN
     \/ Refused /\ UNCHANGED store
     \/ IsAdmin /\ ~Accepted(call.input) /\ Fail("invalid_argument") /\ UNCHANGED store
     \/ IsAdmin /\ Accepted(call.input) /\ taken /\ Fail("already_exists") /\ UNCHANGED store
     \/ /\ IsAdmin /\ Accepted(call.input) /\ ~taken
        /\ TemplateId # spent
        /\ Insert(Row(NewId, call.caller.org, new)) /\ Wrote(NewId)
        /\ UNCHANGED frames
  /\ UNCHANGED file

UpdateFrameTemplate ==
  /\ pc = "begin" /\ call.op = "update"
  /\ LET new == Columns(call.input)
         builtin == \E b \in Builtin : b.id = call.id
         found == Matching(call.caller.org, call.id)
         taken == found # {} /\ TitleTaken(call.caller.org, new.title, found) IN
     \/ Refused /\ UNCHANGED store
     \/ /\ IsAdmin /\ (builtin \/ ~Accepted(call.input))
        /\ Fail("invalid_argument") /\ UNCHANGED store
     \/ /\ IsAdmin /\ ~builtin /\ Accepted(call.input)
        /\ \/ found = {} /\ Fail("not_found") /\ UNCHANGED store
           \/ taken /\ Fail("already_exists") /\ UNCHANGED store
           \/ /\ ~taken
              /\ \E old \in found : Update(old, new) /\ Wrote(old.id)
              /\ UNCHANGED frames
  /\ UNCHANGED file

\* respondWithRow.
RespondWithRow ==
  /\ pc = "respond"
  /\ LET row == Matching(call.caller.org, call.id) IN
     \/ row = {} /\ Fail("internal")
     \/ row # {} /\ Finish("ok", row)
  /\ UNCHANGED <<store, file>>

DeleteFrameTemplate ==
  /\ pc = "begin" /\ call.op = "delete"
  /\ LET found == Matching(call.caller.org, call.id) IN
     \/ Refused /\ UNCHANGED store
     \/ /\ IsAdmin /\ \E b \in Builtin : b.id = call.id
        /\ Fail("invalid_argument") /\ UNCHANGED store
     \/ /\ IsAdmin /\ \A b \in Builtin : b.id # call.id
        /\ \/ found = {} /\ Fail("not_found") /\ UNCHANGED store
           \/ found # {} /\ Delete(found) /\ Finish("ok", {}) /\ UNCHANGED frames
  /\ UNCHANGED file

-----------------------------------------------------------------------------
(* PublishFrame, as far as templates matter: Registry has the references   *)
(* and the versions.  Naming a template asks for a new frame.              *)

Publish ==
  /\ pc = "begin" /\ call.op = "publish"
  /\ LET wrong == \/ call.doc = Unparsable
                  \/ ~Valid(call.doc)
                  \/ call.id # Unset /\ lookupTemplate = {}
                  \/ \E t \in lookupTemplate : Check(t, call.doc.slots) # {} IN
     \/ call.caller.role = "viewer" /\ Fail("permission_denied")
     \/ call.caller.role # "viewer" /\ wrong = TRUE /\ Fail("invalid_argument")
     \/ call.caller.role # "viewer" /\ wrong = FALSE /\ Goto("name", {})
  /\ UNCHANGED <<store, file>>

MayEdit(f) == call.caller.role = "admin" \/ f.owner = call.caller.sub

FindFrame ==
  /\ pc = "name"
  /\ LET found == GetFrameBySlugName(call.caller.org, call.doc.id.name) IN
     \/ found # {} /\ call.id # Unset /\ Fail("already_exists")
     \/ found # {} /\ call.id = Unset /\ (\E f \in found : ~MayEdit(f)) /\ Fail("permission_denied")
     \/ found # {} /\ call.id = Unset /\ (\A f \in found : MayEdit(f)) /\ Goto("save", found)
     \/ found = {} /\ Goto("save", {})
  /\ UNCHANGED <<store, file>>

\* UNIQUE (org_id, name) refuses the loser of two creations.
SaveFrame ==
  /\ pc = "save"
  /\ LET new == FrameOf(call.caller, call.doc.id.name)
         taken == GetFrameBySlugName(new.org, new.name) # {} IN
     \/ held # {} /\ Finish("ok", {}) /\ UNCHANGED frames
     \/ held = {} /\ taken /\ Fail("already_exists") /\ UNCHANGED frames
     \/ held = {} /\ ~taken /\ frames' = frames \cup {new} /\ Finish("ok", {})
  /\ UNCHANGED <<templates, spent, file>>

-----------------------------------------------------------------------------
(* `frames template init` and the author who fills in what it wrote.       *)

\* Guidance is written behind a "# " that only its first line gets.
Splits(text) == \E i \in DOMAIN text : i > 1 /\ ~BlankLine(text[i])

\* Notes of optional slots are not written.
Commented(t) ==
  ~Splits(t.description)
  /\ \A k \in DOMAIN t.rules : t.rules[k].level # "optional" => ~Splits(t.rules[k].note)

scaffoldBody(t) ==
  IF ~Commented(t) THEN Unparsable
  ELSE Doc(Fresh, t.extends, <<>>, t.slots)

TemplateInit ==
  /\ pc = "begin" /\ call.op = "init"
  /\ \/ lookupTemplate = {} /\ Fail(IF call.id = Unset THEN "invalid_argument" ELSE "not_found")
     \/ lookupTemplate # {} /\ Goto("stat", lookupTemplate)
  /\ UNCHANGED <<store, file>>

\* A frame.yaml that is there is only overwritten with --force.
Stat ==
  /\ pc = "stat"
  /\ \/ file # {} /\ ~call.force /\ Fail("exists")
     \/ (file = {} \/ call.force) /\ Goto("write", held)
  /\ UNCHANGED <<store, file>>

WriteScaffold ==
  /\ pc = "write"
  /\ file' = {[doc |-> scaffoldBody(t), template |-> t] : t \in held}
  /\ Finish("ok", {})
  /\ UNCHANGED store

\* The author gives the frame a name and says what it is.
FillIn ==
  /\ pc = "idle"
  /\ \E f \in file, name \in FrameName :
       /\ f.doc # Unparsable /\ f.doc.id.name = Unset
       /\ file' = {[f EXCEPT !.doc.id = Filled(@, name)]}
  /\ UNCHANGED <<store, client, screen>>

-----------------------------------------------------------------------------
(* ConvertFrame: a pure function of what the editor sends.  It touches no  *)
(* storage, so it is enough to try it (a bound) while there is none.       *)

Convert ==
  /\ pc = "idle" /\ spent = {} /\ frames = {} /\ file = {}
  /\ \/ \E s \in Screen :
          \/ s.doc # Unparsable /\ screen' = {[doc |-> s.doc, markdown |-> MarshalMarkdown(s.doc)]}
          \/ /\ s.doc = Unparsable /\ WellFormed(s.markdown)
             /\ screen' = {[doc |-> UnmarshalMarkdown(s.markdown), markdown |-> s.markdown]}
     \/ \E s \in screen :
          \/ screen' = {[doc |-> s.doc, markdown |-> MarshalMarkdown(s.doc)]}
          \/ /\ WellFormed(s.markdown)
             /\ screen' = {[doc |-> UnmarshalMarkdown(s.markdown), markdown |-> s.markdown]}
  /\ UNCHANGED <<store, client, file>>

-----------------------------------------------------------------------------
\* A query fails, or the client goes away.
StoreError ==
  /\ pc # "idle"
  /\ Fail("internal")
  /\ UNCHANGED <<store, file>>

Init ==
  /\ templates = {} /\ spent = {} /\ frames = {}
  /\ pc = "idle" /\ call = NoCall /\ held = {} /\ seen = {}
  /\ reply = [code |-> "none", shown |-> {}]
  /\ file = {} /\ screen = {}

Handler ==
  \/ ListFrameTemplates \/ GetFrameTemplate \/ CreateFrameTemplate \/ UpdateFrameTemplate
  \/ RespondWithRow \/ DeleteFrameTemplate
  \/ Publish \/ FindFrame \/ SaveFrame
  \/ TemplateInit \/ Stat \/ WriteScaffold
  \/ StoreError

Next ==
  \/ Receive \/ FillIn \/ Convert \/ Others
  \/ Handler /\ UNCHANGED screen

Spec == Init /\ [][Next]_vars

-----------------------------------------------------------------------------
(* What must hold of templates, of frames made from them, and of           *)
(* conversions.                                                            *)

ClientStep == pc' # pc

\* Two admins saving templates under one title at once, or renaming one to the
\* other's title, leave one row of that title in their organization, and an id
\* names one row (frame_templates; CreateFrameTemplate, UpdateFrameTemplate).
TitlesUnique ==
  \A t, u \in templates :
    t # u => t.id # u.id /\ (t.org = u.org => t.title # u.title)

\* Whatever id a caller sends, its request neither changes nor shows a template
\* of another organization, and succeeds on none but built-ins and the rows of
\* its own (lookupTemplate, and WHERE id = ? AND org_id = ? in every write).
TemplatesStayInOrg ==
  [][ClientStep /\ pc # "idle" =>
       /\ \A t \in templates \ templates' : t.org = call.caller.org
       /\ \A t \in templates' \ templates : t.org = call.caller.org
       /\ \A t \in reply'.shown : t \in Builtin \/ t.org = call.caller.org]_vars

\* What a row would say if it were saved from this input, field by field.
Says(t, in) ==
  /\ t.title = TrimLine(in.title) /\ t.description = TrimSpace(in.description)
  /\ IF in.prefill = {} THEN t.slots = NoContent ELSE \A p \in in.prefill : t.slots = p.slots
  /\ DOMAIN t.rules = DOMAIN in.rules
  /\ \A k \in DOMAIN in.rules : t.rules[k].level = "required" <=> in.rules[k].level = "required"

\* The answer to a create or an update shows what the admin sent, or what
\* somebody else has made of the row since; never what it said before, never a
\* mixture (respondWithRow reads the row back after the write).
ReplyIsStored ==
  [][pc = "respond" /\ ClientStep /\ reply'.code = "ok" =>
       \A t \in reply'.shown : t \in seen \/ Says(t, call.input)]_vars

\* There is something in a text other than spaces.
Solid(text) == \E i \in DOMAIN text : ToSet(text[i]) \ Spaces # {}

\* Something has been written into slot k: a term and what it means, an item, or text.
Fills(k, slot) ==
  CASE KindOf[k] = "terms" -> \E i \in DOMAIN slot :
                                ToSet(slot[i].term) \ Spaces # {} /\ Solid(slot[i].definition)
    [] KindOf[k] = "list"  -> \E i \in DOMAIN slot : Solid(slot[i])
    [] KindOf[k] = "prose" -> Solid(slot)

\* A frame created from a template has something in every section the template
\* required at some moment of the request, however it is changed or deleted
\* meanwhile, and however the empty section was written (Template.Check,
\* slotHasContent).
RequiredSections ==
  [][(ClientStep /\ pc # "idle" /\ frames' # frames /\ call.id # Unset) =>
       \E t \in seen \cup Builtin :
         /\ t.id = call.id
         /\ \A k \in DOMAIN t.rules :
              t.rules[k].level = "required" => Fills(k, call.doc.slots[k])]_vars

\* What `frames template init` writes is ready to publish once it has a name:
\* it is only found invalid if the template is gone, requires a section that
\* it does not fill itself, or has guidance of several lines, which the
\* scaffold does not keep behind its "#" (validateTemplateInput, scaffoldBody).
ScaffoldPublishes ==
  [][(/\ pc = "begin" /\ ClientStep /\ call.op = "publish" /\ call.from = "file"
      /\ call.doc # Unparsable => call.doc.id.name # Unset
      /\ reply'.code = "invalid_argument") =>
       \E f \in file :
         \/ ~Commented(f.template)
         \/ call.id # Unset /\ \A t \in Builtin \cup RowsOf(call.caller.org) :
              t.id = call.id => \E k \in DOMAIN t.rules : t.rules[k].level = "required"
                                                         /\ ~Fills(k, call.doc.slots[k])]_vars

\* The two sides of the editor say the same words, whatever the text: no
\* conversion drops a line of what the author wrote, in either direction
\* ("guessing would silently mangle an author's content", framemd.go:17).
NothingLost ==
  \A s \in screen :
    WordsInBody(s.markdown.body) = UNION {WordsIn(k, s.doc.slots[k]) : k \in Key}

\* Markdown written from a document that markdown can hold is accepted and reads
\* back as that document, line by line: items that go over several lines, even
\* lines that look like headings or items, terms and parents (WriteBullet,
\* parseBullets, termRe, parseInherit).
RoundTrip ==
  \A s \in screen :
    s.markdown = MarshalMarkdown(s.doc) /\ Expressible(s.doc) =>
      /\ WellFormed(s.markdown)
      /\ UnmarshalMarkdown(s.markdown)
           = [s.doc EXCEPT !.slots = [k \in Key |-> ReadBack(k, s.doc.slots[k])]]

=============================================================================
