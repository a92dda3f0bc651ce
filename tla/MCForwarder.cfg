CONSTANTS
  q1 = q1
  q2 = q2
  k1 = k1
  k2 = k2
  k3 = k3
  ip = ip
  None = None
  Req = {q1, q2}
  Pubkey = {k1, k2, k3}
  Ip = {ip}
  RpcAnswers <- MCRpcAnswers
  TTL = 1
  MinSleep = 400
  MaxSleep = 1000
  MaxTime = 2
SPECIFICATION Spec
INVARIANTS
  TypeOK
  RetainedUntilExpired
  AnswerIsHonest
  LeadersKeepTheirSlots
PROPERTIES
  QuietAfterDown
  EveryBatchIsRetried
  ExpiredAreDropped
  RequestsAreAnswered
  ShutdownCompletes
