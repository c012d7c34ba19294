\* Two clients of one builder and two consumers of another, two addresses, all
\* orders of calls.
CONSTANTS
  NoCredentials = NoCredentials
  DefaultCredentials = DefaultCredentials
  Insecure = Insecure
  NoToken = NoToken
  Urls <- MCUrls
  Credentials = {tls, mtls}
  Tokens = {t1}
  Supplied = {s1, s2}
  Keys = {k1, k2}
  MaxChannels = 1
  MaxClients = 2
  MaxConsumers = 2
SPECIFICATION MCSpec
INVARIANTS
  NoKeyLost
  IndInv
PROPERTIES
  ChannelsAsConfigured
  ChannelsKept
  SupplierAskedEachTime
