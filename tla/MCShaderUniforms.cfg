SPECIFICATION Spec
CONSTANTS
  lit = lit  woven = woven  m = m  n = n  o = o  a = a  b = b  early = early  late = late  moved = moved
  Shaders = {lit, woven}
  Bindings <- MCBindings
  KindOf <- Kinds
  Nodes = {m, n, o}
  ShaderOf <- MCShaderOf
  Times = {early, late}
  Matrices = {Identity, moved}
  Values = {v, w}
  Textures = {a, b}
  Units = {0, 1}
  Scenes <- MCScenes
  Debugging = {TRUE, FALSE}
  Policies = {"exclusive", "reset"}
  Other = Other  Identity = Identity  Foreign = Foreign
  Default = Default  Unset = Unset
SYMMETRY Interchangeable
INVARIANTS
  StateOK
  DrawsSeeTheirNode
PROPERTIES
  UploadsReachTheirTexture
