---------------------------- MODULE ClientSetup ----------------------------
(***************************************************************************)
(* danube/client.py, the ConsumerBuilder of danube/consumer.py and         *)
(* danube/schema_registry_client.py: how one application configures        *)
(* clients, consumers and schema registrations, in any order of calls, and *)
(* what the requests then carry.                                           *)
(*                                                                         *)
(* Two objects are shared by reference and may go on changing after        *)
(* build(): the ConnectionOptions of a client builder, which all clients   *)
(* built from it use, and the list of key filters of a consumer builder.   *)
(* One builder of each kind is modelled, used for several objects.         *)
(*                                                                         *)
(* A key filter is taken for the set of routing keys it matches.           *)
(***************************************************************************)
EXTENDS ConnectionManager, FiniteSets

CONSTANTS Urls,          \* addresses, <<host>> or <<scheme, host>>
          Credentials,   \* what with_tls and with_mtls may make of their files
          Tokens,        \* arguments of with_token
          Supplied,      \* values of the application's token supplier
          Keys,          \* routing keys that filters match
          MaxChannels,   \* bound on the channels of a client
          MaxClients, MaxConsumers   \* bounds on the calls of build()

ASSUME ClientSetupAssumption ==
    /\ NoToken \notin Tokens \cup Supplied
    /\ {NoCredentials, DefaultCredentials, Insecure} \cap Credentials = {}
    /\ DefaultCredentials # NoCredentials
    /\ MaxChannels \in Nat /\ MaxClients \in Nat /\ MaxConsumers \in Nat

VARIABLES options,       \* the ConnectionOptions of the client builder
          uri,           \* DanubeClientBuilder._uri
          clients,       \* the clients built: uri and cache of channels
          current,       \* what the token supplier returns now
          explicit,      \* credentials of the last with_tls or with_mtls
          refreshing,    \* with_token_supplier has been called
          request,       \* the last request: channel and token
          registration,  \* the SchemaRegistrationBuilder: its client and fields
          fields,        \* fields of the consumer builder that are not empty
          key_filters,   \* ConsumerBuilder._key_filters
          consumers,     \* the consumers built
          subscribed     \* the last Subscribe request: consumer and filters

clientVars == <<options, uri, clients, current, explicit, refreshing, request,
                registration>>
consumerVars == <<fields, key_filters, consumers, subscribed>>
vars == <<clientVars, consumerVars>>

NoRequest == [channel |-> NoCredentials, token |-> NoToken]

\* DanubeClient.__init__, with the connection manager that build() makes.
NewClient(u) == [uri |-> u, connections |-> NoConnections]

\* The constructor of the client builder; there is no client yet.
ClientInit ==
    /\ options = NewOptions
    /\ uri \in Urls
    /\ clients = <<>>
    /\ current \in Supplied
    /\ explicit = NoCredentials
    /\ refreshing = FALSE
    /\ request = NoRequest
    /\ registration = [client |-> 0, fields |-> {}]

\* The constructor of the consumer builder.
ConsumerInit ==
    /\ fields = {}
    /\ key_filters = {}
    /\ consumers = <<>>
    /\ subscribed = [consumer |-> 0, key_filters |-> {}]

Init == ClientInit /\ ConsumerInit
-----------------------------------------------------------------------------
(***************************************************************************)
(* DanubeClientBuilder. with_tls and with_mtls raise before they change    *)
(* anything when a file cannot be read.                                    *)
(***************************************************************************)
service_url(u) ==
    /\ uri' = u
    /\ UNCHANGED <<options, clients, current, explicit, refreshing, request, registration>>

\* with_tls and with_mtls, which differ in the credentials they make.
WithTls(c) ==
    /\ options' = [options EXCEPT !.tls_credentials = c, !.use_tls = TRUE]
    /\ explicit' = c
    /\ UNCHANGED <<uri, clients, current, refreshing, request, registration>>

\* A defect to detect: a token brings its own default credentials.
EnableTlsAnew(o) == [o EXCEPT !.use_tls = TRUE, !.tls_credentials = DefaultCredentials]

\* A token enables TLS, with the system's roots if nothing else is configured.
EnableTls(o) ==
    [o EXCEPT !.use_tls = TRUE,
              !.tls_credentials = IF @ = NoCredentials THEN DefaultCredentials ELSE @]

with_token(t) ==
    /\ options' = EnableTls([options EXCEPT !.token = t])
    /\ UNCHANGED <<uri, clients, current, explicit, refreshing, request, registration>>

with_token_supplier ==
    /\ options' = EnableTls([options EXCEPT !.token_supplier = TRUE])
    /\ refreshing' = TRUE
    /\ UNCHANGED <<uri, clients, current, explicit, request, registration>>

\* build(): the options are shared, the uri is copied, the cache is empty.
BuildClient ==
    /\ Len(clients) < MaxClients
    /\ clients' = Append(clients, NewClient(uri))
    /\ UNCHANGED <<options, uri, current, explicit, refreshing, request, registration>>

\* The application's supplier has a new token.
Refresh(t) ==
    /\ current' = t
    /\ UNCHANGED <<options, uri, clients, explicit, refreshing, request, registration>>
-----------------------------------------------------------------------------
(***************************************************************************)
(* Requests. Channel and token are looked up for every request; between    *)
(* the two there is no await that lets another coroutine run.              *)
(***************************************************************************)
\* attach_token_if_needed: the token is resolved when the request is made.
Rpc(c, broker_url, connect_url) ==
    LET key == AddressKey(broker_url, connect_url)
        connections == get_connection(clients[c].connections, options, key)
    IN  /\ Cardinality(DOMAIN connections) <= MaxChannels
        /\ clients' = [clients EXCEPT ![c].connections = connections]
        /\ request' = [channel |-> connections[key], token |-> resolve_token(options, current)]
        /\ UNCHANGED <<options, uri, current, explicit, refreshing, registration>>

\* The address that the SchemaRegistryClient of client.schema() is bound to.
schema(c) == clients[c].uri

\* Any method of that client: _prepare(self._uri), then one RPC.
RegistryCall(c) == Rpc(c, schema(c), schema(c))

\* client.schema().register_schema(subject): a new SchemaRegistrationBuilder.
register_schema(c) ==
    /\ registration' = [client |-> c, fields |-> {}]
    /\ UNCHANGED <<options, uri, clients, current, explicit, refreshing, request>>

\* with_type and with_schema_data; the other fields are optional payload.
RegistrationFields == {"type", "data"}

WithRegistrationField(f) ==
    /\ registration.client # 0
    /\ f \notin registration.fields
    /\ registration' = [registration EXCEPT !.fields = @ \cup {f}]
    /\ UNCHANGED <<options, uri, clients, current, explicit, refreshing, request>>

\* execute(), which raises ValueError without a type or without data; the builder
\* may be executed again.
Execute ==
    /\ registration.fields = RegistrationFields
    /\ RegistryCall(registration.client)

\* TopicLookup and TopicPartitions, at the client's or at a broker's address.
LookupCall(c, u) == Rpc(c, u, u)

\* Requests of producers, consumers and health checks, to the owning broker.
BrokerCall(c, broker_url, connect_url) == Rpc(c, broker_url, connect_url)

ClientStep ==
    \/ \E u \in Urls : service_url(u)
    \/ \E c \in Credentials : WithTls(c)
    \/ \E t \in Tokens : with_token(t)
    \/ with_token_supplier
    \/ BuildClient
    \/ \E t \in Supplied : Refresh(t)
    \/ \E f \in RegistrationFields : WithRegistrationField(f)
    \/ Execute
    \/ \E c \in DOMAIN clients :
          \/ RegistryCall(c)
          \/ register_schema(c)
          \/ \E u \in Urls : LookupCall(c, u)
          \/ \E u, v \in Urls : BrokerCall(c, u, v)
-----------------------------------------------------------------------------
(***************************************************************************)
(* ConsumerBuilder, and the Subscribe requests of the consumers it builds. *)
(***************************************************************************)
FieldNames == {"topic", "consumer_name", "subscription"}

\* with_topic, with_consumer_name, with_subscription.
WithField(f) ==
    /\ f \notin fields
    /\ fields' = fields \cup {f}
    /\ UNCHANGED <<key_filters, consumers, subscribed>>

\* with_key_filter and with_key_filters add to the list in place.
WithKeyFilters(new) ==
    /\ key_filters' = key_filters \cup new
    /\ UNCHANGED <<fields, consumers, subscribed>>

\* A defect to detect: Consumer.__init__ takes an empty list for a list.
SharesAnyList(filters) == TRUE

\* key_filters or []: an empty list is replaced by a list of the consumer's own,
\* any other list stays the one of the builder.
SharesList(filters) == filters # {}

\* build(), which raises ValueError when a field is missing.
BuildConsumer ==
    /\ fields = FieldNames
    /\ Len(consumers) < MaxConsumers
    /\ consumers' = Append(consumers, [shares |-> SharesList(key_filters),
                                       asked |-> key_filters])
    /\ UNCHANGED <<fields, key_filters, subscribed>>

\* The list that a consumer and its TopicConsumers refer to.
FiltersOf(c) == IF consumers[c].shares THEN key_filters ELSE {}

\* The Subscribe request of consumer c, its first or one after a reconnection.
Subscribe(c) ==
    /\ subscribed' = [consumer |-> c, key_filters |-> FiltersOf(c)]
    /\ UNCHANGED <<fields, key_filters, consumers>>

ConsumerStep ==
    \/ \E f \in FieldNames : WithField(f)
    \/ \E new \in SUBSET Keys : WithKeyFilters(new)
    \/ BuildConsumer
    \/ \E c \in DOMAIN consumers : Subscribe(c)

Next ==
    \/ ClientStep /\ UNCHANGED consumerVars
    \/ ConsumerStep /\ UNCHANGED clientVars

Spec == Init /\ [][Next]_vars
-----------------------------------------------------------------------------
ChannelType ==
    [target : {StripScheme(u) : u \in Urls},
     credentials : Credentials \cup {DefaultCredentials, Insecure}]

\* The caches of a ConnectionManager: channels for some pairs of addresses.
Caches ==
    UNION {[pairs -> ChannelType] : pairs \in SUBSET [broker_url : Urls, connect_url : Urls]}

ClientTypeOK ==
    /\ options \in [use_tls : BOOLEAN, token_supplier : BOOLEAN,
                    tls_credentials : Credentials \cup {NoCredentials, DefaultCredentials},
                    token : Tokens \cup {NoToken}]
    /\ uri \in Urls
    /\ clients \in Seq([uri : Urls, connections : Caches])
    /\ current \in Supplied
    /\ explicit \in Credentials \cup {NoCredentials}
    /\ refreshing \in BOOLEAN
    /\ request = NoRequest \/ request \in [channel : ChannelType,
                                           token : Tokens \cup Supplied \cup {NoToken}]
    /\ registration \in [client : 0 .. Len(clients), fields : SUBSET RegistrationFields]

ConsumerTypeOK ==
    /\ fields \subseteq FieldNames
    /\ key_filters \subseteq Keys
    /\ consumers \in Seq([shares : BOOLEAN, asked : SUBSET Keys])
    /\ subscribed \in [consumer : 0 .. Len(consumers), key_filters : SUBSET Keys]

TypeOK == ClientTypeOK /\ ConsumerTypeOK

\* The credentials that the calls made so far ask for, in whatever order.
Wanted ==
    IF explicit # NoCredentials THEN explicit
    ELSE IF refreshing \/ options.token # NoToken THEN DefaultCredentials ELSE Insecure

\* A channel dials the host of its address with the credentials configured so
\* far: with_tls() and with_mtls() win over the default that a token brings,
\* before and after it (client.py:86-88), and the scheme of the address counts
\* for nothing (connection_manager.py:71).
ChannelsAsConfigured ==
    [][\A c \in DOMAIN clients :
          \A k \in DOMAIN clients'[c].connections \ DOMAIN clients[c].connections :
             clients'[c].connections[k] =
                [target |-> StripScheme(k.connect_url), credentials |-> Wanted]]_vars

\* There is one channel per pair of addresses, for good: the stubs that
\* producers, consumers and health checks keep stay in step with the cache,
\* also when the options change under a client in use (connection_manager.py:57).
ChannelsKept ==
    [][\A c \in DOMAIN clients : \A k \in DOMAIN clients[c].connections :
          clients'[c].connections[k] = clients[c].connections[k]]_vars

\* Once a token supplier is set, every request carries what it returns at that
\* moment, whatever with_token() is called before or after (client.py:104).
SupplierAskedEachTime ==
    [][refreshing /\ request' # request => request'.token = current]_vars

\* A broker delivers all keys to a subscription without filters, and those that
\* match one of its filters otherwise.
Accepts(filters, k) == filters = {} \/ k \in filters

\* However the builder is used after build(), every subscription of a consumer
\* takes the keys that it was built to take (consumer.py:58 and 240,
\* topic_consumer.py:41).
NoKeyLost ==
    subscribed.consumer # 0 =>
        \A k \in Keys : Accepts(consumers[subscribed.consumer].asked, k)
                           => Accepts(subscribed.key_filters, k)

\* What the options hold of the calls made so far, in whatever order: a default
\* that a token brought goes when with_tls() or with_mtls() is called, and none
\* replaces what they set (client.py:56-118).
OptionsInStep ==
    /\ options.tls_credentials =
          IF explicit = NoCredentials /\ (refreshing \/ options.token # NoToken)
          THEN DefaultCredentials ELSE explicit
    /\ options.use_tls = (options.tls_credentials # NoCredentials)
    /\ options.token_supplier = refreshing

\* No schema registration is bound to a client that does not exist.
RegistrationBound == registration.client = 0 => registration.fields = {}

\* The list that a consumer shares with its builder only grows, and a consumer
\* built without filters has a list of its own, which nobody adds to.
FiltersKept ==
    /\ \A c \in DOMAIN consumers :
          IF consumers[c].shares
          THEN consumers[c].asked # {} /\ consumers[c].asked \subseteq key_filters
          ELSE consumers[c].asked = {}
    /\ subscribed.consumer # 0 =>
          /\ consumers[subscribed.consumer].asked \subseteq subscribed.key_filters
          /\ consumers[subscribed.consumer].asked = {} => subscribed.key_filters = {}

\* The inductive invariant of Spec: one part for the clients and one for the
\* consumers, which share no variable.
ClientInv == ClientTypeOK /\ OptionsInStep /\ RegistrationBound
ConsumerInv == ConsumerTypeOK /\ FiltersKept
IndInv == ClientInv /\ ConsumerInv
=============================================================================
