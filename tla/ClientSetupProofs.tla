------------------------- MODULE ClientSetupProofs -------------------------
(***************************************************************************)
(* Proofs about ClientSetup, for any addresses, credentials, tokens, keys  *)
(* and bounds: the type invariant, which keys a subscription takes, and    *)
(* the action properties about channels and tokens. They follow from the   *)
(* inductive invariant IndInv of ClientSetup, which says what the options  *)
(* hold of the calls made so far and how the list of key filters that a    *)
(* consumer and its builder share has changed since build().               *)
(***************************************************************************)
EXTENDS ClientSetup, TLAPS

-----------------------------------------------------------------------------
(* The operators of ConnectionManager.                                     *)

\* A channel that is opened now has the credentials that the calls made so far
\* ask for (connection_manager.py:71).
LEMMA CredentialsWanted ==
    ASSUME ClientTypeOK, OptionsInStep
    PROVE  ChannelCredentials(options) = Wanted
BY ClientSetupAssumption DEF ClientTypeOK, OptionsInStep, ChannelCredentials, Wanted

\* A channel opened to an address of the application is a channel.
LEMMA CreateChannelType ==
    ASSUME ClientTypeOK, NEW u \in Urls
    PROVE  CreateChannel(options, u) \in ChannelType
<1>1. ChannelCredentials(options) \in Credentials \cup {DefaultCredentials, Insecure}
  BY ClientSetupAssumption DEF ClientTypeOK, ChannelCredentials
<1> QED
  BY <1>1 DEF CreateChannel, ChannelType

\* get_connection turns a cache into a cache (connection_manager.py:57).
LEMMA GetConnectionType ==
    ASSUME ClientTypeOK, NEW connections \in Caches,
           NEW key \in [broker_url : Urls, connect_url : Urls]
    PROVE  /\ get_connection(connections, options, key) \in Caches
           /\ get_connection(connections, options, key)[key] \in ChannelType
<1> DEFINE pairs == DOMAIN connections \cup {key}
           new == get_connection(connections, options, key)
<1>1. /\ DOMAIN connections \subseteq [broker_url : Urls, connect_url : Urls]
      /\ \A k \in DOMAIN connections : connections[k] \in ChannelType
  BY DEF Caches
<1>2. CreateChannel(options, key.connect_url) \in ChannelType
  BY CreateChannelType
<1>3. new \in [pairs -> ChannelType]
  BY <1>1, <1>2 DEF get_connection
<1>4. pairs \in SUBSET [broker_url : Urls, connect_url : Urls]
  BY <1>1
<1> QED
  BY <1>3, <1>4 DEF Caches
-----------------------------------------------------------------------------
(* The clients.                                                            *)

\* A client that exists has an address and a cache.
LEMMA ClientType ==
    ASSUME ClientInv, NEW c \in DOMAIN clients
    PROVE  clients[c] \in [uri : Urls, connections : Caches]
<1> DEFINE Client == [uri : Urls, connections : Caches]
<1>1. clients \in Seq(Client)
  BY DEF ClientInv, ClientTypeOK
<1> HIDE DEF Client
<1>2. c \in 1 .. Len(clients)
  BY <1>1
<1>3. clients[c] \in Client
  BY <1>1, <1>2
<1> QED
  BY <1>3 DEF Client

\* Every request keeps the invariant: it may open a channel, and it carries a
\* token (connection_manager.py:57, auth_service.py:22).
LEMMA RpcKeeps ==
    ASSUME ClientInv, NEW c \in DOMAIN clients, NEW u \in Urls, NEW v \in Urls, Rpc(c, u, v)
    PROVE  ClientInv'
<1> DEFINE key == AddressKey(u, v)
           connections == get_connection(clients[c].connections, options, key)
<1>1. /\ clients \in Seq([uri : Urls, connections : Caches])
      /\ clients[c] \in [uri : Urls, connections : Caches]
  BY ClientType DEF ClientInv, ClientTypeOK
<1>2. key \in [broker_url : Urls, connect_url : Urls]
  BY DEF AddressKey
<1>3. connections \in Caches /\ connections[key] \in ChannelType
  BY <1>1, <1>2, GetConnectionType DEF ClientInv
<1>4. clients' = [clients EXCEPT ![c] = [clients[c] EXCEPT !.connections = connections]]
  BY DEF Rpc
<1>5. clients' \in Seq([uri : Urls, connections : Caches]) /\ Len(clients') = Len(clients)
  <2> HIDE DEF connections
  <2>1. [clients[c] EXCEPT !.connections = connections] \in [uri : Urls, connections : Caches]
    BY <1>1, <1>3
  <2> QED
    BY <1>1, <1>4, <2>1
<1>6. request' \in [channel : ChannelType, token : Tokens \cup Supplied \cup {NoToken}]
  <2>1. resolve_token(options, current) \in Tokens \cup Supplied \cup {NoToken}
    BY DEF ClientInv, ClientTypeOK, resolve_token
  <2>2. request' = [channel |-> connections[key], token |-> resolve_token(options, current)]
    BY DEF Rpc
  <2> HIDE DEF connections, key
  <2> QED
    BY <1>3, <2>1, <2>2
<1>7. UNCHANGED <<options, uri, current, explicit, refreshing, registration>>
  BY DEF Rpc
<1>8. ClientTypeOK'
  BY <1>5, <1>6, <1>7 DEF ClientInv, ClientTypeOK
<1>9. OptionsInStep' /\ RegistrationBound'
  BY <1>7 DEF ClientInv, OptionsInStep, RegistrationBound
<1> QED
  BY <1>8, <1>9 DEF ClientInv

\* The clients whose address is asked for exist: a registration that can be
\* executed was begun on a client (schema_registry_client.py:216).
LEMMA ExecuteIsRegistryCall ==
    ASSUME ClientInv, Execute
    PROVE  registration.client \in DOMAIN clients /\ RegistryCall(registration.client)
<1>1. registration.client # 0
  BY DEF Execute, ClientInv, RegistrationBound, RegistrationFields
<1>2. registration.client \in 0 .. Len(clients) /\ Len(clients) \in Nat
      /\ DOMAIN clients = 1 .. Len(clients)
  BY DEF ClientInv, ClientTypeOK
<1> QED
  BY <1>1, <1>2 DEF Execute

\* A registry call is a request to the client's own address.
LEMMA RegistryCallIsRpc ==
    ASSUME ClientInv, NEW c \in DOMAIN clients, RegistryCall(c)
    PROVE  schema(c) \in Urls /\ Rpc(c, schema(c), schema(c))
BY ClientType DEF RegistryCall, schema

\* Every step of the builder, of the clients and of their requests keeps the
\* invariant.
LEMMA ClientStepKeeps ==
    ASSUME ClientInv, ClientStep
    PROVE  ClientInv'
<1>1. ASSUME NEW u \in Urls, service_url(u) PROVE ClientInv'
  BY <1>1 DEF service_url, ClientInv, ClientTypeOK, OptionsInStep, RegistrationBound
<1>2. ASSUME NEW c \in Credentials, WithTls(c) PROVE ClientInv'
  BY <1>2, ClientSetupAssumption
     DEF WithTls, ClientInv, ClientTypeOK, OptionsInStep, RegistrationBound
<1>3. ASSUME NEW t \in Tokens, with_token(t) PROVE ClientInv'
  BY <1>3, ClientSetupAssumption
     DEF with_token, EnableTls, ClientInv, ClientTypeOK, OptionsInStep, RegistrationBound
<1>4. ASSUME with_token_supplier PROVE ClientInv'
  BY <1>4, ClientSetupAssumption
     DEF with_token_supplier, EnableTls, ClientInv, ClientTypeOK, OptionsInStep, RegistrationBound
<1>5. ASSUME BuildClient PROVE ClientInv'
  <2>1. NoConnections \in Caches
    <3>1. NoConnections \in [{} -> ChannelType]
      BY DEF NoConnections
    <3> QED
      BY <3>1 DEF Caches
  <2>2. NewClient(uri) \in [uri : Urls, connections : Caches]
    BY <2>1 DEF NewClient, ClientInv, ClientTypeOK
  <2>3. clients' \in Seq([uri : Urls, connections : Caches]) /\ Len(clients') = Len(clients) + 1
        /\ Len(clients) \in Nat
    BY <1>5, <2>2 DEF BuildClient, ClientInv, ClientTypeOK
  <2> QED
    BY <1>5, <2>3 DEF BuildClient, ClientInv, ClientTypeOK, OptionsInStep, RegistrationBound
<1>6. ASSUME NEW t \in Supplied, Refresh(t) PROVE ClientInv'
  BY <1>6 DEF Refresh, ClientInv, ClientTypeOK, OptionsInStep, RegistrationBound
<1>7. ASSUME NEW f \in RegistrationFields, WithRegistrationField(f) PROVE ClientInv'
  BY <1>7 DEF WithRegistrationField, ClientInv, ClientTypeOK, OptionsInStep, RegistrationBound
<1>8. ASSUME Execute PROVE ClientInv'
  BY <1>8, ExecuteIsRegistryCall, RegistryCallIsRpc, RpcKeeps
<1>9. ASSUME NEW c \in DOMAIN clients, RegistryCall(c) PROVE ClientInv'
  BY <1>9, RegistryCallIsRpc, RpcKeeps
<1>10. ASSUME NEW c \in DOMAIN clients, register_schema(c) PROVE ClientInv'
  <2>1. c \in 0 .. Len(clients)
    BY DEF ClientInv, ClientTypeOK
  <2> QED
    BY <1>10, <2>1 DEF register_schema, ClientInv, ClientTypeOK, OptionsInStep, RegistrationBound
<1>11. ASSUME NEW c \in DOMAIN clients, NEW u \in Urls, NEW v \in Urls,
              LookupCall(c, u) \/ BrokerCall(c, u, v)
       PROVE  ClientInv'
  BY <1>11, RpcKeeps DEF LookupCall, BrokerCall
<1> QED
  BY <1>1, <1>2, <1>3, <1>4, <1>5, <1>6, <1>7, <1>8, <1>9, <1>10, <1>11 DEF ClientStep

-----------------------------------------------------------------------------
(* The consumers.                                                          *)

\* Every step of the consumer builder and of the consumers keeps the invariant:
\* the builder's list only grows, and an empty one is not shared (consumer.py:58).
LEMMA ConsumerStepKeeps ==
    ASSUME ConsumerInv, ConsumerStep
    PROVE  ConsumerInv'
<1> DEFINE ConsumerType == [shares : BOOLEAN, asked : SUBSET Keys]
<1>0. /\ consumers \in Seq(ConsumerType) /\ Len(consumers) \in Nat
      /\ DOMAIN consumers = 1 .. Len(consumers)
      /\ \A c \in DOMAIN consumers : consumers[c] \in ConsumerType
  <2>1. consumers \in Seq(ConsumerType)
    BY DEF ConsumerInv, ConsumerTypeOK
  <2> HIDE DEF ConsumerType
  <2> QED
    BY <2>1
<1>1. ASSUME NEW f \in FieldNames, WithField(f) PROVE ConsumerInv'
  BY <1>1 DEF WithField, ConsumerInv, ConsumerTypeOK, FiltersKept
<1>2. ASSUME NEW new \in SUBSET Keys, WithKeyFilters(new) PROVE ConsumerInv'
  BY <1>2 DEF WithKeyFilters, ConsumerInv, ConsumerTypeOK, FiltersKept
<1>3. ASSUME BuildConsumer PROVE ConsumerInv'
  <2> DEFINE consumer == [shares |-> SharesList(key_filters), asked |-> key_filters]
  <2>1. consumer \in ConsumerType
    BY DEF ConsumerInv, ConsumerTypeOK, SharesList
  <2>2. consumers' = Append(consumers, consumer)
        /\ UNCHANGED <<fields, key_filters, subscribed>>
    BY <1>3 DEF BuildConsumer
  <2>3. /\ consumers' \in Seq(ConsumerType)
        /\ Len(consumers') = Len(consumers) + 1
        /\ DOMAIN consumers' = 1 .. Len(consumers) + 1
        /\ \A c \in DOMAIN consumers : consumers'[c] = consumers[c]
        /\ consumers'[Len(consumers) + 1] = consumer
    <3> HIDE DEF consumer, ConsumerType
    <3> QED
      BY <1>0, <2>1, <2>2
  <2>4. ConsumerTypeOK'
    BY <1>0, <2>2, <2>3 DEF ConsumerInv, ConsumerTypeOK
  <2>5. ASSUME NEW c \in DOMAIN consumers'
        PROVE  IF consumers'[c].shares
               THEN consumers'[c].asked # {} /\ consumers'[c].asked \subseteq key_filters'
               ELSE consumers'[c].asked = {}
    <3>1. CASE c \in DOMAIN consumers
      BY <2>2, <2>3, <3>1 DEF ConsumerInv, FiltersKept
    <3>2. CASE c = Len(consumers) + 1
      <4>1. consumers'[c] = consumer
        BY <2>3, <3>2
      <4>2. consumer.asked = key_filters /\ (consumer.shares <=> key_filters # {})
        BY DEF SharesList
      <4>3. key_filters' = key_filters
        BY <2>2
      <4> HIDE DEF consumer
      <4> QED
        BY <4>1, <4>2, <4>3
    <3> QED
      BY <1>0, <2>3, <3>1, <3>2
  <2>6. subscribed.consumer # 0 => subscribed.consumer \in DOMAIN consumers
    BY <1>0 DEF ConsumerInv, ConsumerTypeOK
  <2>7. FiltersKept'
    BY <2>2, <2>3, <2>5, <2>6 DEF ConsumerInv, FiltersKept
  <2> QED
    BY <2>4, <2>7 DEF ConsumerInv
<1>4. ASSUME NEW c \in DOMAIN consumers, Subscribe(c) PROVE ConsumerInv'
  <2>1. FiltersOf(c) \in SUBSET Keys
    BY DEF FiltersOf, ConsumerInv, ConsumerTypeOK
  <2>2. /\ consumers[c].asked \subseteq FiltersOf(c)
        /\ consumers[c].asked = {} => FiltersOf(c) = {}
    BY DEF FiltersOf, ConsumerInv, FiltersKept
  <2>3. /\ subscribed' = [consumer |-> c, key_filters |-> FiltersOf(c)]
        /\ UNCHANGED <<fields, key_filters, consumers>>
    BY <1>4 DEF Subscribe
  <2>4. ConsumerTypeOK'
    BY <1>0, <2>1, <2>3 DEF ConsumerInv, ConsumerTypeOK
  <2>5. FiltersKept'
    BY <2>2, <2>3 DEF ConsumerInv, FiltersKept
  <2> QED
    BY <2>4, <2>5 DEF ConsumerInv
<1> QED
  BY <1>1, <1>2, <1>3, <1>4 DEF ConsumerStep
-----------------------------------------------------------------------------
(* The invariant and what follows from it.                                 *)

\* A step changes either the clients or the consumers, and keeps both parts.
LEMMA StepKeeps ==
    ASSUME IndInv, [Next]_vars
    PROVE  IndInv'
<1>1. ASSUME UNCHANGED clientVars PROVE ClientInv'
  BY <1>1 DEF clientVars, IndInv, ClientInv, ClientTypeOK, OptionsInStep, RegistrationBound
<1>2. ASSUME UNCHANGED consumerVars PROVE ConsumerInv'
  BY <1>2 DEF consumerVars, IndInv, ConsumerInv, ConsumerTypeOK, FiltersKept
<1> QED
  BY <1>1, <1>2, ClientStepKeeps, ConsumerStepKeeps DEF IndInv, Next, vars

\* IndInv holds of every state, in any order of calls (client.py:56-118,
\* consumer.py:58 and 240): what the options hold, which client a registration
\* is bound to, and which filters a consumer subscribes with.
THEOREM ClientSetupIndInv == Spec => []IndInv
<1>1. Init => IndInv
  <2>1. ASSUME Init PROVE ClientInv
    <3> DEFINE Client == [uri : Urls, connections : Caches]
    <3>1. clients \in Seq(Client) /\ Len(clients) = 0
      <4>1. clients = <<>>
        BY <2>1 DEF Init, ClientInit
      <4> HIDE DEF Client
      <4> QED
        BY <4>1
    <3>2. options = NewOptions /\ explicit = NoCredentials /\ refreshing = FALSE
          /\ registration = [client |-> 0, fields |-> {}]
      BY <2>1 DEF Init, ClientInit
    <3>3. ClientTypeOK
      <4>1. registration \in [client : 0 .. Len(clients), fields : SUBSET RegistrationFields]
        BY <3>1, <3>2
      <4>2. options \in [use_tls : BOOLEAN, token_supplier : BOOLEAN,
                         tls_credentials : Credentials \cup {NoCredentials, DefaultCredentials},
                         token : Tokens \cup {NoToken}]
        BY <3>2 DEF NewOptions
      <4>3. uri \in Urls /\ current \in Supplied /\ request = NoRequest
            /\ explicit = NoCredentials /\ refreshing \in BOOLEAN
        BY <2>1 DEF Init, ClientInit
      <4>4. clients \in Seq([uri : Urls, connections : Caches])
        BY <3>1
      <4> QED
        BY <4>1, <4>2, <4>3, <4>4 DEF ClientTypeOK
    <3>4. OptionsInStep /\ RegistrationBound
      BY <3>2 DEF NewOptions, OptionsInStep, RegistrationBound
    <3> QED
      BY <3>3, <3>4 DEF ClientInv
  <2>2. ASSUME Init PROVE ConsumerInv
    BY <2>2 DEF Init, ConsumerInit, ConsumerInv, ConsumerTypeOK, FiltersKept
  <2> QED
    BY <2>1, <2>2 DEF IndInv
<1>2. IndInv /\ [Next]_vars => IndInv'
  BY StepKeeps
<1> QED
  BY <1>1, <1>2, PTL DEF Spec

\* Type correctness: in particular, all channels go to the host of an address of
\* the application, with credentials that were configured or the default ones.
THEOREM ClientSetupTypeOK == Spec => []TypeOK
<1>1. IndInv => TypeOK
  BY DEF IndInv, ClientInv, ConsumerInv, TypeOK
<1> QED
  BY <1>1, ClientSetupIndInv, PTL

\* However a consumer builder is used after build(), every subscription of a
\* consumer takes the keys that it was built to take (consumer.py:58 and 240).
THEOREM ClientSetupNoKeyLost == Spec => []NoKeyLost
<1>1. IndInv => NoKeyLost
  BY DEF IndInv, ConsumerInv, FiltersKept, NoKeyLost, Accepts
<1> QED
  BY <1>1, ClientSetupIndInv, PTL

-----------------------------------------------------------------------------
(* What a step may do to the caches and to the requests.                   *)

\* A request leaves the caches of the other clients alone.
LEMMA RpcCache ==
    ASSUME ClientInv, NEW d \in DOMAIN clients, NEW u \in Urls, NEW v \in Urls, Rpc(d, u, v),
           NEW c \in DOMAIN clients
    PROVE  \/ clients'[c].connections = clients[c].connections
           \/ \E key \in [broker_url : Urls, connect_url : Urls] :
                 clients'[c].connections = get_connection(clients[c].connections, options, key)
<1> DEFINE key == AddressKey(u, v)
           connections == get_connection(clients[d].connections, options, key)
<1>1. clients[d] \in [uri : Urls, connections : Caches]
  BY ClientType
<1>2. clients' = [clients EXCEPT ![d] = [clients[d] EXCEPT !.connections = connections]]
  BY DEF Rpc
<1>3. key \in [broker_url : Urls, connect_url : Urls]
  BY DEF AddressKey
<1>4. CASE c = d
  <2>1. clients'[c].connections = connections
    <3> HIDE DEF connections
    <3> QED
      BY <1>1, <1>2, <1>4
  <2> QED
    BY <2>1, <1>3, <1>4
<1>5. CASE c # d
  <2> HIDE DEF connections
  <2> QED
    BY <1>2, <1>5
<1> QED
  BY <1>4, <1>5

\* A step either leaves the cache of a client as it is or looks one channel up in
\* it (connection_manager.py:57).
LEMMA CacheStep ==
    ASSUME IndInv, Next, NEW c \in DOMAIN clients
    PROVE  \/ clients'[c].connections = clients[c].connections
           \/ \E key \in [broker_url : Urls, connect_url : Urls] :
                 clients'[c].connections = get_connection(clients[c].connections, options, key)
<1>0. ClientInv
  BY DEF IndInv
<1>1. ASSUME UNCHANGED clients PROVE clients'[c].connections = clients[c].connections
  BY <1>1
<1>2. ASSUME BuildClient PROVE clients'[c].connections = clients[c].connections
  <2> DEFINE Client == [uri : Urls, connections : Caches]
             new == NewClient(uri)
  <2>1. clients \in Seq(Client) /\ clients' = Append(clients, new)
    BY <1>0, <1>2 DEF BuildClient, ClientInv, ClientTypeOK
  <2> HIDE DEF Client, new
  <2> QED
    BY <2>1
<1>3. CASE ConsumerStep /\ UNCHANGED clientVars
  BY <1>1, <1>3 DEF clientVars
<1>4. CASE Execute
  BY <1>0, <1>4, ExecuteIsRegistryCall, RegistryCallIsRpc, RpcCache
<1>5. ASSUME NEW d \in DOMAIN clients, RegistryCall(d)
      PROVE  \/ clients'[c].connections = clients[c].connections
             \/ \E key \in [broker_url : Urls, connect_url : Urls] :
                 clients'[c].connections = get_connection(clients[c].connections, options, key)
  BY <1>0, <1>5, RegistryCallIsRpc, RpcCache
<1>6. ASSUME NEW d \in DOMAIN clients, NEW u \in Urls, NEW v \in Urls,
             LookupCall(d, u) \/ BrokerCall(d, u, v)
      PROVE  \/ clients'[c].connections = clients[c].connections
             \/ \E key \in [broker_url : Urls, connect_url : Urls] :
                 clients'[c].connections = get_connection(clients[c].connections, options, key)
  BY <1>0, <1>6, RpcCache DEF LookupCall, BrokerCall
<1>7. CASE \/ \E u \in Urls : service_url(u)
           \/ \E x \in Credentials : WithTls(x)
           \/ \E t \in Tokens : with_token(t)
           \/ with_token_supplier
           \/ \E t \in Supplied : Refresh(t)
           \/ \E f \in RegistrationFields : WithRegistrationField(f)
           \/ \E d \in DOMAIN clients : register_schema(d)
  BY <1>1, <1>7 DEF service_url, WithTls, with_token, with_token_supplier, Refresh,
                    WithRegistrationField, register_schema
<1> QED
  BY <1>2, <1>3, <1>4, <1>5, <1>6, <1>7 DEF Next, ClientStep

\* There is one channel per pair of addresses, for good: the stubs that
\* producers, consumers and health checks keep stay in step with the cache, also
\* when the options change under a client in use (connection_manager.py:57).
THEOREM ClientSetupChannelsKept == Spec => ChannelsKept
<1> DEFINE Kept ==
       \A c \in DOMAIN clients : \A k \in DOMAIN clients[c].connections :
          clients'[c].connections[k] = clients[c].connections[k]
<1>1. IndInv /\ [Next]_vars => [Kept]_vars
  <2> SUFFICES ASSUME IndInv, Next, NEW c \in DOMAIN clients,
                      NEW k \in DOMAIN clients[c].connections
               PROVE  clients'[c].connections[k] = clients[c].connections[k]
    OBVIOUS
  <2>1. CASE clients'[c].connections = clients[c].connections
    BY <2>1
  <2>2. ASSUME NEW key \in [broker_url : Urls, connect_url : Urls],
               clients'[c].connections = get_connection(clients[c].connections, options, key)
        PROVE  clients'[c].connections[k] = clients[c].connections[k]
    BY <2>2 DEF get_connection
  <2> QED
    BY <2>1, <2>2, CacheStep
<1> QED
  BY <1>1, ClientSetupIndInv, PTL DEF Spec, ChannelsKept

\* A channel dials the host of its address with the credentials configured so
\* far: with_tls() and with_mtls() win over the default that a token brings,
\* before and after it, and the scheme of the address counts for nothing
\* (client.py:56-118, connection_manager.py:71).
THEOREM ClientSetupChannelsAsConfigured == Spec => ChannelsAsConfigured
<1> DEFINE AsConfigured ==
       \A c \in DOMAIN clients :
          \A k \in DOMAIN clients'[c].connections \ DOMAIN clients[c].connections :
             clients'[c].connections[k] =
                [target |-> StripScheme(k.connect_url), credentials |-> Wanted]
<1>1. IndInv /\ [Next]_vars => [AsConfigured]_vars
  <2> SUFFICES ASSUME IndInv, Next, NEW c \in DOMAIN clients,
                      NEW k \in DOMAIN clients'[c].connections \ DOMAIN clients[c].connections
               PROVE  clients'[c].connections[k] =
                         [target |-> StripScheme(k.connect_url), credentials |-> Wanted]
    OBVIOUS
  <2>1. clients'[c].connections[k] = CreateChannel(options, k.connect_url)
    <3>1. PICK key \in [broker_url : Urls, connect_url : Urls] :
             clients'[c].connections = get_connection(clients[c].connections, options, key)
      BY CacheStep
    <3>2. k = key
      BY <3>1 DEF get_connection
    <3> QED
      BY <3>1, <3>2 DEF get_connection
  <2>2. ChannelCredentials(options) = Wanted
    BY CredentialsWanted DEF IndInv, ClientInv
  <2> QED
    BY <2>1, <2>2 DEF CreateChannel
<1> QED
  BY <1>1, ClientSetupIndInv, PTL DEF Spec, ChannelsAsConfigured

\* Once a token supplier is set, every request carries what it returns at that
\* moment, whatever with_token() is called before or after (client.py:99,
\* auth_service.py:22).
THEOREM ClientSetupSupplierAskedEachTime == Spec => SupplierAskedEachTime
<1>1. ASSUME IndInv, Next, refreshing, request' # request PROVE request'.token = current
  <2>1. ClientInv
    BY <1>1 DEF IndInv
  <2>2. ASSUME NEW c \in DOMAIN clients, NEW u \in Urls, NEW v \in Urls, Rpc(c, u, v)
        PROVE  request'.token = current
    <3>1. request'.token = resolve_token(options, current)
      BY <2>2 DEF Rpc
    <3>2. options.token_supplier
      BY <1>1, <2>1 DEF ClientInv, OptionsInStep
    <3> QED
      BY <3>1, <3>2 DEF resolve_token
  <2>3. CASE ConsumerStep /\ UNCHANGED clientVars
    BY <1>1, <2>3 DEF clientVars
  <2>4. CASE Execute
    BY <2>1, <2>2, <2>4, ExecuteIsRegistryCall, RegistryCallIsRpc
  <2>5. ASSUME NEW c \in DOMAIN clients, RegistryCall(c) PROVE request'.token = current
    BY <2>1, <2>2, <2>5, RegistryCallIsRpc
  <2>6. ASSUME NEW c \in DOMAIN clients, NEW u \in Urls, NEW v \in Urls,
               LookupCall(c, u) \/ BrokerCall(c, u, v)
        PROVE  request'.token = current
    BY <2>2, <2>6 DEF LookupCall, BrokerCall
  <2>7. CASE \/ \E u \in Urls : service_url(u)
             \/ \E x \in Credentials : WithTls(x)
             \/ \E t \in Tokens : with_token(t)
             \/ with_token_supplier
             \/ BuildClient
             \/ \E t \in Supplied : Refresh(t)
             \/ \E f \in RegistrationFields : WithRegistrationField(f)
             \/ \E c \in DOMAIN clients : register_schema(c)
    <3>1. request' = request
      BY <2>7 DEF service_url, WithTls, with_token, with_token_supplier, BuildClient,
                    Refresh, WithRegistrationField, register_schema
    <3> QED
      BY <1>1, <3>1
  <2> QED
    BY <1>1, <2>3, <2>4, <2>5, <2>6, <2>7 DEF Next, ClientStep
<1>2. IndInv /\ [Next]_vars => [refreshing /\ request' # request => request'.token = current]_vars
  BY <1>1
<1> QED
  BY <1>2, ClientSetupIndInv, PTL DEF Spec, SupplierAskedEachTime
=============================================================================
