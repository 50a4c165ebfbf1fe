SPECIFICATION WorkspaceSpec
CONSTANTS
  base = base
  lib = lib
  app = app
  fork = fork
  a = a
  b = b
  c = c
  d = d
  e = e
  NoFile = NoFile
  Module = {base, lib, app, fork}
  File = {a, b, c, d, e}
  ModuleOf <- MCModuleOf
  Dependencies <- MCDependencies
  FlatDeps <- MCFlatDeps
  Capacity = 2
INVARIANT SiblingsLive
INVARIANT DependenciesLive
INVARIANT TokensLinked
SYMMETRY Alike
CONSTRAINT OneBroken
