SPECIFICATION FairSpec
CONSTANTS
  r1 = r1
  r2 = r2
  r3 = r3
  Requests = {r1, r2, r3}
  Domains <- SomeDomains
  Deploys <- SomeDeploys
  Volumes <- SomeVolumes
  Fresh <- SomeFresh
INVARIANTS TypeOK NoDeadlock
PROPERTIES EveryoneIsServed
