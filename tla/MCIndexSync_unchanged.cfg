CONSTANTS
  repo = repo
  file = file
  readme = readme
  note = note
  h1 = h1
  h2 = h2
  p1 = p1
  p2 = p2
  b1 = b1
  b2 = b2
  b3 = b3
  Sources = {repo, file}
  Docs = {readme, note}
  Chunks = {1, 2, 3}
  SourceOf <- MCSourceOf
  DocOf <- MCDocOf
  Headers = {h1, h2}
  TitleOf <- SameTitle
  Public = {h1}
  Profiles = {p1, p2}
  Versioned = {repo}
  Contents <- MCContents
  Builds = {b1, b2}
  Requests <- SyncOnly
  MaxEdits = 1
SYMMETRY Symmetric
SPECIFICATION Spec
PROPERTIES UnchangedIsCurrent
