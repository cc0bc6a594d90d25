SPECIFICATION FairSpec
CONSTANTS
  v0 = v0  kube = kube
  Harbor = {h1, h2}
  Value = {v0, v1, v2}
  Admin = {a1}
  Strict = {h1}
  Outsize = {v1}
  MaxChanges = 2
  CopySlot = {1, 2, 3}
  MaxCopies = 2
  Person = {p1, p2}
  Limit = {1, 2}
  MaxDecided = 3
  MaxRaced = 2
  MaxDirect = 1
  Host = {h1, h2, kube}
  Editor = {r1, r2}
  MaxEdits = 4
  MaxCrashes = 1
  Star = Star  Never = Never  None = None
INVARIANTS TypeOK SettingIsOwed OneCopyAtATime CopyIsOwed OnePublisher SecretIsThere NothingLeft DecisionsAreTrue ScheduleIsTrue
PROPERTIES SuccessIsKept WorkIsDone
CHECK_DEADLOCK FALSE
