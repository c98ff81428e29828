CONSTANTS
  all = all
  screen = screen
  root = root
  x = x
  g = g
  y = y
  z = z
  bar = bar
  vpn = vpn
  s = s
  v1 = v1
  v2 = v2
  array = array
  Global = all
  Overlays = {screen}
  Root = root
  Leaves = {x, y}
  Groups = {bar}
  Strays = {s}
  Home <- MCHome
  GlobalOnly = {}
  Values = {v1, v2}
  Default <- MCDefault
  Junk = junk
  Obj = obj
  Absent = absent
  NotObject = array
  FileRaw = {v2, junk}
  FileDocs <- MCFileDocs
  Resettable = {bar}
SPECIFICATION Spec
CHECK_DEADLOCK FALSE
INVARIANT FileIsKept
