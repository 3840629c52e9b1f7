\* Two ids, two hosts, three credentials, two failures; a licence for two
\* agents may be uploaded. No symmetry: liveness. It ends when all ids are gone.
CONSTANTS
  Ids = {i1, i2}
  NoId = NoId
  Hosts = {h1, h2}
  NoHost = NoHost
  Licences = {2}
  MaxCreds = 3
  MaxFaults = 2
SPECIFICATION FairSpec
INVARIANTS
  IssuedByCurrentCA
PROPERTIES
  RegisterOnce
  ServiceComesOnline
CHECK_DEADLOCK FALSE
