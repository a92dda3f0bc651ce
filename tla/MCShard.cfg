CONSTANTS
  a = a
  b = b
  c = c
  r1 = r1
  r2 = r2
  Key = {a, b, c}
  Hash <- MCHash
  NShards = 2
  Readers = {r1, r2}
  ChannelCap = 1
  Batch = 2
  MaxCopies <- MCMaxCopies
SPECIFICATION Spec
INVARIANTS
  TypeOK
  OncePerKey
  CompletionMeansAllHandled
  NothingStranded
  NoKeyLost
PROPERTIES
  ImplementsKeyDedup
  CallerIsAnswered
