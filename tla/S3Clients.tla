------------------------------ MODULE S3Clients ------------------------------
(***************************************************************************)
(* The AWS clients of storage.S3Backend (internal/storage/s3.go): every    *)
(* operation asks getClientForBucket for the client of its bucket, and the *)
(* client is created on first use by getOrCreateClient, which looks under  *)
(* the read lock and again under the write lock.                           *)
(*                                                                         *)
(* A client is what it was built from and a serial number that tells two   *)
(* clients apart; "made" counts them.  Creating a session may fail.        *)
(***************************************************************************)
EXTENDS Integers

CONSTANTS
    Request,    \* concurrent operations of the backend
    Bucket,     \* bucket names clients use
    Config,     \* BucketConfigs: virtual bucket name -> its configuration
    Default,    \* the backend's own configuration
    Unset,      \* an empty string of a configuration
    None

Keys == [endpoint : {Unset} \cup {Config[b].endpoint : b \in DOMAIN Config},
         region : {Config[b].region : b \in DOMAIN Config}]

VARIABLES clients, made, pc, cfg, got

vars == <<clients, made, pc, cfg, got>>

(* Endpoint and credentials fall back to the backend's own. *)
Endpoint(c) == IF c.endpoint # Unset THEN c.endpoint ELSE Default.endpoint
Credentials(c) == IF c.creds # Unset THEN c.creds ELSE Default.creds

(* Mutant of ClientKey: The endpoint is left out of the key. *)
ClientKeyWithoutEndpoint(c) == [endpoint |-> Unset, region |-> c.region]

ClientKey(c) == [endpoint |-> c.endpoint, region |-> c.region]

NewClient(c, serial) ==
    [serial |-> serial, endpoint |-> Endpoint(c), region |-> c.region,
     creds |-> Credentials(c)]

DefaultClient == NewClient(Default, 0)

Init ==
    /\ clients = [k \in Keys |-> None]
    /\ made = 0
    /\ pc = [r \in Request |-> "idle"]
    /\ cfg = [r \in Request |-> None]
    /\ got = [r \in Request |-> None]

Take(r, client) ==
    /\ got' = [got EXCEPT ![r] = client]
    /\ pc' = [pc EXCEPT ![r] = "got"]

(* The configurations the range over bucketConfigs may stop at: one whose   *)
(* real name is the bucket, in the map's unspecified order.                 *)
ByRealName(b) == {c \in {Config[v] : v \in DOMAIN Config} : c.real = b}

UseConfig(r, c) ==
    /\ cfg' = [cfg EXCEPT ![r] = c]
    /\ pc' = [pc EXCEPT ![r] = "lookup"]
    /\ UNCHANGED <<clients, made, got>>

GetClientForBucket(r, b) ==
    /\ pc[r] = "idle"
    /\ \/ b \in DOMAIN Config /\ UseConfig(r, Config[b])
       \/ /\ b \notin DOMAIN Config
          /\ \E c \in ByRealName(b) : UseConfig(r, c)
       \/ /\ b \notin DOMAIN Config /\ ByRealName(b) = {}
          /\ Take(r, DefaultClient)
          /\ UNCHANGED <<clients, made, cfg>>

(* getOrCreateClient under the read lock. *)
Lookup(r) ==
    /\ pc[r] = "lookup"
    /\ LET client == clients[ClientKey(cfg[r])] IN
       \/ client # None /\ Take(r, client)
       \/ client = None /\ pc' = [pc EXCEPT ![r] = "create"] /\ got' = got
    /\ UNCHANGED <<clients, made, cfg>>

(* Mutant of CreateClient: The map is not looked at again under the write   *)
(* lock.                                                                    *)
CreateClientUnchecked(r) ==
    /\ pc[r] = "create"
    /\ LET client == NewClient(cfg[r], made + 1) IN
       /\ clients' = [clients EXCEPT ![ClientKey(cfg[r])] = client]
       /\ made' = made + 1
       /\ Take(r, client)
    /\ UNCHANGED cfg

(* ... and under the write lock, where it looks again. *)
CreateClient(r) ==
    /\ pc[r] = "create"
    /\ LET k == ClientKey(cfg[r])
           client == NewClient(cfg[r], made + 1) IN
       \/ clients[k] # None /\ Take(r, clients[k]) /\ UNCHANGED <<clients, made>>
       \/ /\ clients[k] = None
          /\ clients' = [clients EXCEPT ![k] = client]
          /\ made' = made + 1
          /\ Take(r, client)
    /\ UNCHANGED cfg

(* session.NewSession returns an error: nothing is stored. *)
CreateFails(r) ==
    /\ pc[r] = "create"
    /\ clients[ClientKey(cfg[r])] = None
    /\ pc' = [pc EXCEPT ![r] = "failed"]
    /\ UNCHANGED <<clients, made, cfg, got>>

(* The operation returns. *)
Finish(r) ==
    /\ pc[r] \in {"got", "failed"}
    /\ pc' = [pc EXCEPT ![r] = "idle"]
    /\ cfg' = [cfg EXCEPT ![r] = None]
    /\ got' = [got EXCEPT ![r] = None]
    /\ UNCHANGED <<clients, made>>

Next == \E r \in Request :
    \/ \E b \in Bucket : GetClientForBucket(r, b)
    \/ Lookup(r) \/ CreateClient(r) \/ CreateFails(r) \/ Finish(r)

Spec == Init /\ [][Next]_vars

---------------------------------------------------------------------------
(* Properties. *)

(* The operation got a client its bucket's configuration chose. *)
Configured(r) == pc[r] = "got" /\ cfg[r] # None

(* getOrCreateClient creates one client per key and everyone shares it:     *)
(* a client an operation holds is the one in the map, although several      *)
(* operations may find the map empty at once.                               *)
OneClientPerKey == \A r \in Request :
    Configured(r) => got[r] = clients[ClientKey(cfg[r])]

(* The client an operation uses talks to the endpoint and the region of its *)
(* bucket's configuration, whichever bucket it was created for.             *)
ClientReachesBucket == \A r \in Request :
    Configured(r) => /\ got[r].endpoint = Endpoint(cfg[r])
                     /\ got[r].region = cfg[r].region

=============================================================================
