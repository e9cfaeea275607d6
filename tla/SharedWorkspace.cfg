SPECIFICATION HarnessSpec
CONSTANTS
  c1 = c1  c2 = c2  c3 = c3 c4 = c4  w1 = w1  w2 = w2
  opencode_sdk = opencode_sdk  codex_sdk = codex_sdk
  Cases = {c1, c2, c3, c4}
  Keys = {w1, w2}
  KeyOf <- EntryKeys
  Kinds = {opencode_sdk, codex_sdk}
  KindOf <- EntryKind
  Ensuring = {codex_sdk}
  Opencode = {c1, c2}
  Supplied = {c3, c4}
  Turns = 2
  Keep = FALSE
  Stale = {}
  Earlier = Earlier
INVARIANT WorkspacePrivate
