SPECIFICATION FairSpec
CONSTANTS
  Faces = {f1, f2}
  Times = 2
  LinkTestIDs = {t1, t2}
  MaxTests = 2
  CapsuleFaces = {f1, f2}
  Slow = {f1}
PROPERTIES
  VerdictsSound
  StatusFollowsLink
