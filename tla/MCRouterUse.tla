----------------------------- MODULE MCRouterUse -----------------------------
(* An instance of RouterUse for TLC in which real keys are hashed and routed. *)
EXTENDS RouterUse, Fnv1a

\* Keys as bytes, with the hash that other FNV-1a implementations give, limb by
\* limb: "", "a", "foobar", "order-123", the bytes FF FF FF and the UTF-8 text of
\* a word with two characters outside ASCII.
Published == {
    [key |-> <<>>, hash |-> <<8997, 33826, 40164, 52210>>],
    [key |-> <<97>>, hash |-> <<60556, 34305, 56396, 44899>>],
    [key |-> <<102, 111, 111, 98, 97, 114>>, hash |-> <<26600, 63289, 16753, 34196>>],
    [key |-> <<111, 114, 100, 101, 114, 45, 49, 50, 51>>,
     hash |-> <<23226, 35677, 63938, 7062>>],
    [key |-> <<255, 255, 255>>, hash |-> <<44564, 58491, 13339, 63896>>],
    [key |-> <<103, 114, 195, 182, 195, 159, 101>>,
     hash |-> <<16602, 62849, 3614, 46917>>]}

MCHashes == {Remainder(fnv1a_hash(v.key), NumPartitions) : v \in Published}

VARIABLE routed   \* the keys routed so far, with hash and partition

MCInit == Init /\ routed = {}

\* key_route(key), with its call of _fnv1a_hash.
RouteKey(key) ==
    LET hash == fnv1a_hash(key)
        h == Remainder(hash, NumPartitions)
    IN  /\ SelectForKey(h)
        /\ routed' = routed \cup {[key |-> key, hash |-> hash,
                                   partition |-> key_route(h, NumPartitions)]}

MCNext ==
    \/ Select /\ UNCHANGED routed
    \/ \E v \in Published : RouteKey(v.key)

MCSpec == MCInit /\ [][MCNext]_<<vars, routed>>

\* A key goes where clients in other languages send it: its hash is the one that
\* FNV-1a is published to give (message_router.py:31), and whatever was routed
\* before or goes round robin in between, so is the partition.
PublishedRoute ==
    \A r \in routed : \A v \in Published :
        v.key = r.key =>
            /\ r.hash = v.hash
            /\ r.partition = Remainder(v.hash, NumPartitions)

(***************************************************************************)
(* The multiplication drops exactly what does not fit, as the mask of      *)
(* message_router.py:35 does: checked with limbs of three bits, where the  *)
(* product of a word and a number of the prime's shape can be computed.    *)
(***************************************************************************)
SmallBase == 8
Value(w) == w[1] + SmallBase * (w[2] + SmallBase * (w[3] + SmallBase * w[4]))
SmallWords == [1 .. 4 -> {0, 1, 4, 7}]

ASSUME WrapsAround ==
    \A w \in SmallWords, low \in {3, 7, 61}, high \in {1, 5} :
        Value(Times(SmallBase, low, high, w)) =
            (Value(w) * (low + high * SmallBase * SmallBase)) % (SmallBase * SmallBase * SmallBase * SmallBase)
=============================================================================
