SPECIFICATION DatabaseSpec
CONSTANTS
  Creates = {c1, c2}
  Others = {o1}
  PoolSize = 1
  Workers = 1
  None = None
INVARIANT NoPhantomEvents
INVARIANT BrokerHarmless
 
PROPERTY NoMorePools
PROPERTY ConnectionsServed
PROPERTY AllAnswered
