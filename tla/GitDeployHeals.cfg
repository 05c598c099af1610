SPECIFICATION FairSpec
CONSTANTS
  t1 = t1
  t2 = t2
  imgA = imgA
  imgB = imgB
  Task = {t1, t2}
  Door = {"approved"}
  Image = {imgA}
  NoImage = NoImage
  ComposeTag = ComposeTag
  Window = 2
  Budget <- MCBudget
  MonitorMinutes = 1
  MaxHistory = 1
  MaxEdits = 1
PROPERTIES StrandedLockHeals
