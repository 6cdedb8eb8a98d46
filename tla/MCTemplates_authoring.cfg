CONSTANTS
  Unparsable = NoDoc
  NoDoc = NoDoc
  SlotTable <- MCSlotTable
  KindOf <- MCKindOf
  HeadingOf <- MCHeadingOf
  Piece <- MCPiece
  FrameName <- MCFrameName
  Org = {"o1", "o2"}
  Caller <- MCCaller
  TemplateId = {"t1", "t2"}
  Builtin <- MCBuiltin
  Call <- MCCall
  Input <- MCInput
  Screen <- MCScreen
SPECIFICATION Spec
INVARIANT TitlesUnique
INVARIANT NothingLost
 
PROPERTY TemplatesStayInOrg
PROPERTY ReplyIsStored
PROPERTY RequiredSections
 
