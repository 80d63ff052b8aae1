CONSTANTS
  c1 = c1
  c2 = c2
  c3 = c3
  f = f
  g = g
  h = h
  r = r
  s = s
  t = t
  Root = Root
  None = None
  Folders = {f, g, h}
  Requests = {r, s, t}
  Collections = {c1, c2, c3}
  Slots = {p1, p2}
  Trees <- MCTrees
  Bundles <- MCBundles
  Opened <- MCOpened
  Queries <- MCQueries
  MaxOps = 3
  MaxBeside = 2
SPECIFICATION CatalogSpec
ACTION_CONSTRAINT Scenario
SYMMETRY Interchangeable
INVARIANTS CatalogIsSound
PROPERTIES StoreKeepsItems DropKeepsFolders
