SPECIFICATION Spec
CONSTANTS
  t1 = t1
  a1 = a1
  ann = ann
  bob = bob
  h1 = h1
  h2 = h2
  Nobody = Nobody
  Tasks = {t1}
  Assets = {a1}
  Actions = {"null"}
  People = {ann, bob}
  Threads = {h1, h2}
  MaxOpen = 1
INVARIANTS
  ApprovedOnRecord
