SPECIFICATION AttrSpec
CONSTANTS
  Levels = {414, 619}
  LeaderAsks = {{}, {"call_chain"}, {"call_chain", "defer_user"}}
  SiblingAsks = {{"call_chain"}, {"call_chain", "defer_user"}}
  WithSibling = {{}}
INVARIANT NothingIgnored
CHECK_DEADLOCK FALSE
