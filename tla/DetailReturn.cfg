SPECIFICATION DetailSpec
CONSTANTS
  Xapps = {x1}
  Installations = {j1}
  Packages = {p1}
  Loads = {l1, l2}
  Checkouts = {}
  Changes = {}
  Effect = Effect
  Ended = Ended
  Nobody = Nobody
PROPERTIES
  AccessRefreshed
CHECK_DEADLOCK FALSE
