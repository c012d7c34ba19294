------------------------- MODULE ConnectionManager -------------------------
(***************************************************************************)
(* danube/connection_manager.py and danube/auth_service.py: the options of *)
(* a client, the cache of channels and the metadata of a request, as       *)
(* operators. get_connection holds an asyncio.Lock and awaits nothing else,*)
(* so a call is one step. internal_broker is left out: no code sets it.    *)
(***************************************************************************)
EXTENDS Integers, Sequences

CONSTANTS NoCredentials,        \* tls_credentials = None
          DefaultCredentials,   \* grpc.ssl_channel_credentials() of the system
          Insecure,             \* grpc.aio.insecure_channel
          NoToken               \* token = "", and no metadata

\* ConnectionOptions as it is before any call of the builder.
NewOptions ==
    [use_tls |-> FALSE, tls_credentials |-> NoCredentials,
     token |-> NoToken, token_supplier |-> FALSE]

\* A defect to detect: a static token comes before the supplier.
resolve_token_static(options, supplied) ==
    IF options.token = NoToken /\ options.token_supplier THEN supplied ELSE options.token

\* resolve_token, where supplied is what the supplier returns when it is called.
resolve_token(options, supplied) ==
    IF options.token_supplier THEN supplied ELSE options.token

\* The credentials of a channel that is opened now.
ChannelCredentials(options) ==
    IF ~options.use_tls THEN Insecure
    ELSE IF options.tls_credentials = NoCredentials THEN DefaultCredentials
    ELSE options.tls_credentials

\* An address is <<host>>, or <<scheme, host>> with "http://" or "https://".
StripScheme(url) == IF Len(url) = 2 THEN Tail(url) ELSE url

\* A defect to detect: the address is dialled with its scheme.
CreateChannelWithScheme(options, connect_url) ==
    [target |-> connect_url, credentials |-> ChannelCredentials(options)]

\* _create_channel: gRPC is given host:port without the scheme, and whether the
\* channel uses TLS depends on the options alone.
CreateChannel(options, connect_url) ==
    [target |-> StripScheme(connect_url), credentials |-> ChannelCredentials(options)]

\* The key of the cache. Addresses that differ in the scheme alone are two keys.
AddressKey(broker_url, connect_url) ==
    [broker_url |-> broker_url, connect_url |-> connect_url]

\* The cache of a new ConnectionManager.
NoConnections == [key \in {} |-> NoCredentials]

\* A defect to detect: every call opens a channel and caches it.
get_connection_anew(connections, options, key) ==
    [k \in DOMAIN connections \cup {key} |->
        IF k = key THEN CreateChannel(options, key.connect_url) ELSE connections[k]]

\* The cache after get_connection: a channel that is there is used as it is.
get_connection(connections, options, key) ==
    [k \in DOMAIN connections \cup {key} |->
        IF k \in DOMAIN connections THEN connections[k]
        ELSE CreateChannel(options, key.connect_url)]
=============================================================================
