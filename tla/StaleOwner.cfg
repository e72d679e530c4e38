SPECIFICATION Spec
CONSTANTS
  p1 = p1  p2 = p2  p3 = p3
  m1 = m1  m1b = m1b  m2 = m2  m3 = m3  bad = bad
  f1 = f1  f2 = f2  f3 = f3  r1 = r1  r2 = r2
  Paths = {p1}
  Manifests = {m1, m1b, m2, m3}
  Broken = {bad}
  NoText = NoText
  Fingerprints = {f1, f2, f3}
  NoFp = NoFp
  Releases = {r1, r2}
  FingerprintOf <- MCFingerprintOf
  ReleaseOf <- MCReleaseOf
  NoDir = NoDir
  Placeable <- OneReplaced
  Scanners = {"server"}
  Worker = "server"
  Retries = 1
  MaxEdits = 3
INVARIANTS OwnerHoldsItsRelease
