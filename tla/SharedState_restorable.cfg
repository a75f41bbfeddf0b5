SPECIFICATION Spec
CONSTANTS
  p1 = p1
  p2 = p2
  r1 = r1
  r2 = r2
  e1 = e1
  e2 = e2
  f1 = f1
  f2 = f2
  Nil = Nil
  Procs = {"g1", "g2"}
  Bufs = {1, 2, 3}
  Encs = {1, 2}
  Arrs = {1}
  Stacks = {1}
  FirstSize = 2
  Scripts <- MCScripts
  ScriptsOf <- MCScriptsOf
  Parts = {"globals"}
  Writers = {p1, p2}
  Entries = {e1, e2}
  NumSinks = 3
  EntryLen = 1
  SinksMayFail = TRUE
  Clients = {p1, p2}
  Fields = {f1, f2}
  FieldLists <- MCFieldLists
  Bounds <- MCBounds
  Loggers = {"l1", "l2"}
  Nop = "nop"
  StdLevels = {"info", "error"}
  BadLevels = {"99"}
  Flags = "LstdFlags"
  Prefix = "app: "
  MaxDepth = 2
  Reqs = {r1, r2}
  SetTo = {3, 42}
  Texts = {"debug", "warning", "fatal", "", "bogus", "absent", "malformed"}
  StartLevel = 0
  Builders = {"g1"}
  OutPaths <- MCPaths
  Scheme <- MCScheme
  Spellings = {"mem", "MEM", "file", "File", "1x", ""}
  Normal <- MCNormal
  Factories = {"f1", "f2"}
  Encodings = {"json", "mine", ""}
  Segments = {"a"}
  ContextFields = {"f"}
  Settings = {"addCaller"}
  Values = {"x"}
  Default = "d"
  Skips = {1}
  Levels = {0, 2, 10}
  CoreLevel = 1
  MaxHandles = 4
  MaxOptions = 2
INVARIANTS AlwaysRestorable
CHECK_DEADLOCK FALSE
