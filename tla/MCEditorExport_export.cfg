CONSTANTS
  own = own
  cpp1 = cpp1
  cpp2 = cpp2
  root = root
  output = output
  inner = inner
  Unity = Unity
  UnityFramework = UnityFramework
  so1 = so1
  so2 = so2
  Files = {own, cpp1, cpp2}
  Groups = {root, output, inner}
  Generated = {cpp1, cpp2}
  Targets = {Unity, UnityFramework, GameAssembly}
  GameAssembly = GameAssembly
  Dependents = {Unity, UnityFramework}
  Compiles <- MCCompiles
  Scripts <- MCScripts
  Libs = {so1, so2}
  MaxExports = 3
SPECIFICATION EditorSpec
INVARIANTS
  ExportInstalls
  SourcesOutlive
  ProjectClosed
  RemovesExactly
PROPERTIES
  ScriptEnds
