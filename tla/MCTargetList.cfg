\* Groups (one part, two property groups) and patch (two parts), an arbitrary peer.
SPECIFICATION Spec
CONSTANTS
  u = u
  v = v
  Empty = Empty
  NoTarget = NoTarget
  Val <- MCVal
  Num = {1, 2}
  Part = {0, 1, 2}
  Types = {"GROUP", "PATCH"}
  ListId = 0
  ReplyKeys <- MCReplyKeys
  Groups = {"", "channels", "notes"}
  ArgLists <- MCArgLists
  MaxCount = 2
SYMMETRY UidSymmetry
INVARIANTS TypeOK NumTargetsExact UidLookupSound CompleteSound DirtyReachesList NoMissedChange
PROPERTY CompleteTargetsFrozen
