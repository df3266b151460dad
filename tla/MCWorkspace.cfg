SPECIFICATION MCSpec
CONSTANTS
    t1 = t1  t2 = t2  v = v  a = a  g = g  h = h  h2 = h2  x = x  y = y  p = p  outp = outp  kid = kid  z = z  q = q
    Tabs <- MCTabs
    KindOf <- MCKindOf
    PortRel <- MCPortRel
    Defs <- MCDefs
    GroupDef <- MCGroupDef
    DefPersist <- MCDefPersist
    FirstDoc <- MCFirstDoc
    Contents = {0, 1}
    Empty = 0
    UNDO_CAP = 2
    MAX_EDITS = 3
    MAX_DEPTH = 2
    MAX_INSTANCES = 3
    ImageSteps = 6
INVARIANTS SavedFileLoads AskedForIsKept ReplayIsTheBuild ReadsBackTheSame
PROPERTIES UndoRestores NotesKept
CHECK_DEADLOCK FALSE
