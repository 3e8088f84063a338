\* Two relays, one worker, one lost request or restart; or two replicas, two
\* requests, two retargets and replicas that go down or come up twice: a target
\* can leave the table and come back under a request.
CONSTANTS
  a = a
  b = b
  t1 = t1
  t2 = t2
  q1 = q1
  q2 = q2
  Workers = {w1}
  Tier <- TwoRelays
  NumShards = 2
  RetainLast = 1
  MaxRetries = 2
  PublishEvery = 1
  MaxRevision = 2
  MaxFaults = 1
  Replicas = {t1, t2}
  Requests = {q1, q2}
  MaxRetargets = 2
  MaxFlips = 2
SPECIFICATION MCSpec
INVARIANTS HubSound LoadTrue
PROPERTIES ChannelKept HubDelivers PoolConverges
