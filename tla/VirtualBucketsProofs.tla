------------------------ MODULE VirtualBucketsProofs ------------------------
(***************************************************************************)
(* Proofs about VirtualBuckets and S3Clients: operations share one client  *)
(* per key of the map and it is the right one; therefore each works on the *)
(* real bucket its configuration names; therefore virtual buckets are      *)
(* isolated, which is the refinement of Buckets, and a listing shows keys  *)
(* of its own bucket only.  That it loses none rests on the order of keys: *)
(* what does not fit on a page comes after the entry its marker names      *)
(* (ListingInv).                                                           *)
(***************************************************************************)
EXTENDS VirtualBuckets, SequenceTheorems, FiniteSetTheorems, WellFoundedInduction, TLAPS

Str == Seq(Nat)

---------------------------------------------------------------------------
(* Prefixes. *)

(* HasPrefix byte by byte. *)
LEMMA PrefixIs ==
    ASSUME NEW s \in Str, NEW t \in Str
    PROVE  HasPrefix(t, s) <=> Len(s) <= Len(t) /\ \A i \in 1 .. Len(s) : s[i] = t[i]
  BY DEF HasPrefix, IsPrefix, Str

(* TrimPrefix undoes the adding of a prefix. *)
LEMMA TrimConcat ==
    ASSUME NEW p \in Str, NEW k \in Str
    PROVE  /\ p \o k \in Str /\ HasPrefix(p \o k, p) /\ TrimPrefix(p \o k, p) = k
<1> DEFINE x == p \o k
<1>1. /\ x \in Str /\ Len(x) = Len(p) + Len(k) /\ Len(p) \in Nat /\ Len(k) \in Nat
      /\ \A i \in 1 .. Len(x) : x[i] = IF i <= Len(p) THEN p[i] ELSE k[i - Len(p)]
  BY ConcatProperties, LenProperties DEF Str
<1> HIDE DEF x
<1>2. HasPrefix(x, p)
  BY <1>1, PrefixIs
<1> DEFINE y == SubSeq(x, Len(p) + 1, Len(x))
<1>3. \A i \in Len(p) + 1 .. Len(x) : x[i] \in Nat
  BY <1>1, ElementOfSeq DEF Str
<1>4. /\ y \in Str /\ Len(y) = Len(k)
      /\ \A i \in 1 .. Len(k) : y[i] = x[Len(p) + i]
  <2>1. Len(p) + 1 \in Int /\ Len(x) \in Int
    BY <1>1
  <2>2. /\ y \in Seq(Nat)
        /\ Len(y) = IF Len(p) + 1 <= Len(x) THEN Len(x) - (Len(p) + 1) + 1 ELSE 0
        /\ \A i \in 1 .. Len(x) - (Len(p) + 1) + 1 : y[i] = x[Len(p) + 1 + i - 1]
    BY <1>3, <2>1, SubSeqProperties
  <2> HIDE DEF y
  <2>3. Len(x) - (Len(p) + 1) + 1 = Len(k) /\ (Len(p) + 1 <= Len(x) <=> Len(k) > 0)
    BY <1>1
  <2>4. ASSUME NEW i \in 1 .. Len(k) PROVE y[i] = x[Len(p) + i]
    <3>1. Len(p) + 1 + i - 1 = Len(p) + i
      BY <1>1
    <3> QED BY <2>2, <2>3, <3>1
  <2>5. Len(y) = Len(k)
    BY <1>1, <2>2, <2>3
  <2> QED BY <2>2, <2>4, <2>5 DEF Str
<1> HIDE DEF y
<1>5. \A i \in 1 .. Len(k) : y[i] = k[i]
  BY <1>1, <1>4
<1>6. y = k
  BY <1>4, <1>5, SeqEqual DEF Str
<1> QED BY <1>1, <1>2, <1>6 DEF TrimPrefix, x, y

(* What has a prefix is the prefix and the rest. *)
LEMMA TrimSplits ==
    ASSUME NEW p \in Str, NEW x \in Str, HasPrefix(x, p)
    PROVE  TrimPrefix(x, p) \in Str /\ x = p \o TrimPrefix(x, p)
<1> DEFINE y == SubSeq(x, Len(p) + 1, Len(x))
<1>1. /\ Len(p) \in Nat /\ Len(x) \in Nat /\ Len(p) <= Len(x)
      /\ \A i \in 1 .. Len(p) : p[i] = x[i]
      /\ \A i \in Len(p) + 1 .. Len(x) : x[i] \in Nat
  BY PrefixIs, LenProperties, ElementOfSeq DEF Str
<1>2. /\ y \in Str /\ Len(y) = Len(x) - Len(p)
      /\ \A i \in 1 .. Len(y) : y[i] = x[Len(p) + i]
  <2>1. /\ y \in Seq(Nat)
        /\ Len(y) = IF Len(p) + 1 <= Len(x) THEN Len(x) - (Len(p) + 1) + 1 ELSE 0
        /\ \A i \in 1 .. Len(x) - (Len(p) + 1) + 1 : y[i] = x[Len(p) + 1 + i - 1]
    BY <1>1, SubSeqProperties
  <2> HIDE DEF y
  <2> QED BY <1>1, <2>1 DEF Str
<1>3. TrimPrefix(x, p) = y
  BY DEF TrimPrefix
<1> HIDE DEF y
<1> DEFINE z == p \o y
<1>4. /\ z \in Str /\ Len(z) = Len(p) + Len(y)
      /\ \A i \in 1 .. Len(z) : z[i] = IF i <= Len(p) THEN p[i] ELSE y[i - Len(p)]
  BY <1>2, ConcatProperties, LenProperties DEF Str
<1> HIDE DEF z
<1>5. Len(z) = Len(x) /\ \A i \in 1 .. Len(x) : x[i] = z[i]
  BY <1>1, <1>2, <1>4
<1>6. x = z
  BY <1>4, <1>5, SeqEqual DEF Str
<1> QED BY <1>2, <1>3, <1>6 DEF z

(* Prefixes of strings that begin alike. *)
LEMMA SameRest ==
    ASSUME NEW p \in Str, NEW s \in Str, NEW t \in Str, HasPrefix(p \o t, p \o s)
    PROVE  HasPrefix(t, s)
<1> DEFINE x == p \o s
           y == p \o t
<1>1. /\ x \in Str /\ Len(x) = Len(p) + Len(s)
      /\ \A i \in 1 .. Len(p) + Len(s) : x[i] = IF i <= Len(p) THEN p[i] ELSE s[i - Len(p)]
  BY ConcatProperties DEF Str
<1>2. /\ y \in Str /\ Len(y) = Len(p) + Len(t)
      /\ \A i \in 1 .. Len(p) + Len(t) : y[i] = IF i <= Len(p) THEN p[i] ELSE t[i - Len(p)]
  BY ConcatProperties DEF Str
<1>3. Len(p) \in Nat /\ Len(s) \in Nat /\ Len(t) \in Nat
  BY LenProperties DEF Str
<1>4. Len(x) <= Len(y) /\ \A i \in 1 .. Len(x) : x[i] = y[i]
  BY <1>1, <1>2, PrefixIs
<1> HIDE DEF x, y
<1>5. Len(s) <= Len(t)
  BY <1>1, <1>2, <1>3, <1>4
<1>6. ASSUME NEW i \in 1 .. Len(s) PROVE s[i] = t[i]
  <2>1. /\ Len(p) + i \in 1 .. Len(p) + Len(s) /\ Len(p) + i \in 1 .. Len(p) + Len(t)
        /\ ~(Len(p) + i <= Len(p)) /\ Len(p) + i - Len(p) = i
    BY <1>3, <1>5
  <2>2. x[Len(p) + i] = s[i] /\ y[Len(p) + i] = t[i]
    BY <1>1, <1>2, <2>1
  <2> QED BY <1>1, <1>4, <2>1, <2>2
<1> QED BY <1>5, <1>6, PrefixIs

(* A non-empty set of numbers has a least one. *)
LEMMA Least ==
    ASSUME NEW T, T \subseteq Nat, T # {}
    PROVE  \E x \in T : \A y \in T : x <= y
<1> DEFINE R == OpToRel(<, Nat)
<1>1. IsWellFoundedOn(R, Nat)
  BY NatLessThanWellFounded
<1>2. \A x, y \in Nat : y < x => <<y, x>> \in R
  BY DEF OpToRel
<1> HIDE DEF R
<1>3. PICK x \in T : \A y \in T : <<y, x>> \notin R
  BY <1>1, WFMin
<1>4. ASSUME NEW y \in T PROVE x <= y
  <2>1. x \in Nat /\ y \in Nat /\ ~(y < x)
    BY <1>2, <1>3
  <2> QED BY <2>1
<1> QED BY <1>4

(* The common prefix of a key is a prefix of it, longer than what comes     *)
(* before the delimiter.                                                    *)
LEMMA CommonPrefixIs ==
    ASSUME NEW key \in Str, NEW n \in Nat, Delimiters(key, n) # {}
    PROVE  /\ CommonPrefix(key, n) \in Str /\ Len(CommonPrefix(key, n)) > n
           /\ HasPrefix(key, CommonPrefix(key, n))
<1> DEFINE ds == Delimiters(key, n)
           m == CHOOSE i \in ds : \A j \in ds : i <= j
<1>1. ds \subseteq Nat /\ ds \subseteq n + 1 .. Len(key) /\ Len(key) \in Nat
  BY LenProperties DEF Delimiters, Str
<1>2. m \in n + 1 .. Len(key)
  <2> HIDE DEF ds
  <2>1. \E i \in ds : \A j \in ds : i <= j
    BY <1>1, Least DEF ds
  <2> QED BY <1>1, <2>1
<1> DEFINE c == SubSeq(key, 1, m)
<1>3. CommonPrefix(key, n) = c
  BY DEF CommonPrefix
<1> HIDE DEF m
<1>4. m \in Nat /\ m > n /\ m <= Len(key) /\ \A i \in 1 .. m : key[i] \in Nat
  BY <1>1, <1>2, ElementOfSeq DEF Str
<1>5. /\ c \in Seq(Nat) /\ Len(c) = IF 1 <= m THEN m - 1 + 1 ELSE 0
      /\ \A i \in 1 .. m - 1 + 1 : c[i] = key[1 + i - 1]
  BY <1>4, SubSeqProperties
<1> HIDE DEF c
<1>6. c \in Str /\ Len(c) = m /\ \A i \in 1 .. m : c[i] = key[i]
  BY <1>4, <1>5 DEF Str
<1>7. HasPrefix(key, c)
  BY <1>4, <1>6, PrefixIs
<1> QED BY <1>3, <1>4, <1>6, <1>7

(* All of a string but its last byte. *)
LEMMA FrontIs ==
    ASSUME NEW c \in Seq(Nat), c # <<>>
    PROVE  /\ Front(c) \in Seq(Nat) /\ Len(Front(c)) = Len(c) - 1
           /\ \A i \in 1 .. Len(c) - 1 : Front(c)[i] = c[i]
<1>1. PICK n \in Nat : Len(c) = n + 1
  <2>1. Len(c) \in Nat /\ Len(c) # 0
    BY EmptySeq
  <2> WITNESS Len(c) - 1 \in Nat
  <2> QED BY <2>1
<1>2. \A i \in 1 .. n : c[i] \in Nat
  BY <1>1, ElementOfSeq
<1>3. /\ SubSeq(c, 1, n) \in Seq(Nat)
      /\ Len(SubSeq(c, 1, n)) = IF 1 <= n THEN n - 1 + 1 ELSE 0
      /\ \A i \in 1 .. n - 1 + 1 : SubSeq(c, 1, n)[i] = c[1 + i - 1]
  BY <1>2, SubSeqProperties
<1> DEFINE f == SubSeq(c, 1, n)
<1> HIDE DEF f
<1>4. Len(f) = n /\ f \in Seq(Nat) /\ \A i \in 1 .. n : f[i] = c[i]
  BY <1>3 DEF f
<1>5. Front(c) = f /\ Len(c) - 1 = n
  BY <1>1 DEF Front, f
<1> QED BY <1>4, <1>5

(* The prefix of a bucket is a string; what is configured is all of it but  *)
(* the last slash.                                                          *)
LEMMA BucketPrefix ==
    ASSUME NEW v
    PROVE  /\ GetPrefixForBucket(v) \in Str /\ ConfiguredPart(v) \in Str
           /\ ConfiguredPart(v) # <<>> => GetPrefixForBucket(v) = Append(ConfiguredPart(v), Slash)
           /\ GetPrefixForBucket(v) = ConfiguredPrefix(v)
<1>1. CASE v \notin DOMAIN Config \/ Config[v].prefix = <<>>
  BY <1>1 DEF GetPrefixForBucket, ConfiguredPart, ConfiguredPrefix, Str
<1>2. CASE v \in DOMAIN Config /\ Config[v].prefix # <<>>
  <2> DEFINE c == Config[v].prefix
  <2>1. c \in Seq(Nat) /\ c # <<>> /\ Slash \in Nat
    BY <1>2, ConfigAssumption DEF Slash
  <2>2. /\ Len(c) \in Nat \ {0} /\ \A i \in 1 .. Len(c) : c[i] \in Nat
    BY <2>1, EmptySeq, ElementOfSeq
  <2>3. CASE Last(c) = Slash
    <3>1. GetPrefixForBucket(v) = c /\ ConfiguredPart(v) = Front(c)
      BY <1>2, <2>3 DEF GetPrefixForBucket, ConfiguredPart
    <3> DEFINE f == Front(c)
    <3> HIDE DEF c
    <3>2. /\ f \in Seq(Nat) /\ Len(f) = Len(c) - 1
          /\ \A i \in 1 .. Len(c) - 1 : f[i] = c[i]
      BY <2>1, FrontIs DEF f
    <3> HIDE DEF f
    <3>3. /\ Append(f, Slash) \in Seq(Nat) /\ Len(Append(f, Slash)) = Len(c)
          /\ \A i \in 1 .. Len(c) - 1 : Append(f, Slash)[i] = c[i]
          /\ Append(f, Slash)[Len(c)] = Slash
      <4>1. /\ Append(f, Slash) \in Seq(Nat) /\ Len(Append(f, Slash)) = Len(f) + 1
            /\ \A i \in 1 .. Len(f) : Append(f, Slash)[i] = f[i]
            /\ Append(f, Slash)[Len(f) + 1] = Slash
        BY <2>1, <3>2, AppendProperties
      <4>2. Len(f) + 1 = Len(c)
        BY <2>2, <3>2
      <4> QED BY <3>2, <4>1, <4>2
    <3>4. \A i \in 1 .. Len(c) : Append(f, Slash)[i] = c[i]
      BY <2>2, <2>3, <3>3 DEF Last
    <3>5. Append(f, Slash) = c
      BY <2>1, <3>3, <3>4, SeqEqual
    <3>6. ConfiguredPrefix(v) = Append(f, Slash)
      BY <1>2, <3>1 DEF ConfiguredPrefix, f, c
    <3> QED BY <2>1, <3>1, <3>2, <3>5, <3>6 DEF Str, c, f
  <2>4. CASE Last(c) # Slash
    BY <1>2, <2>1, <2>4, AppendProperties
       DEF GetPrefixForBucket, ConfiguredPart, ConfiguredPrefix, Str
  <2> QED BY <2>3, <2>4
<1> QED BY <1>1, <1>2

(* Two virtual buckets at one place: no key of one has the other's prefix.  *)
LEMMA Separate ==
    ASSUME NEW u \in Virtual, NEW v \in Virtual, u # v, Place[u] = Place[v], NEW k \in Str
    PROVE  ~HasPrefix(GetPrefixForBucket(u) \o k, GetPrefixForBucket(v))
<1> DEFINE cu == ConfiguredPart(u)
           cv == ConfiguredPart(v)
           pu == GetPrefixForBucket(u)
           pv == GetPrefixForBucket(v)
<1>1. /\ cu # <<>> /\ cv # <<>> /\ cu # cv
      /\ ~IsPrefix(Append(cu, Slash), cv) /\ ~IsPrefix(Append(cv, Slash), cu)
  BY SeparateAssumption
<1>2. /\ cu \in Str /\ cv \in Str /\ pu \in Str /\ pv \in Str
      /\ pu = Append(cu, Slash) /\ pv = Append(cv, Slash)
  BY <1>1, BucketPrefix
<1> HIDE DEF cu, cv, pu, pv
<1>3. /\ Len(pu) = Len(cu) + 1 /\ \A i \in 1 .. Len(cu) : pu[i] = cu[i]
      /\ Len(pv) = Len(cv) + 1 /\ \A i \in 1 .. Len(cv) : pv[i] = cv[i]
      /\ pu[Len(cu) + 1] = Slash /\ pv[Len(cv) + 1] = Slash
      /\ Len(cu) \in Nat /\ Len(cv) \in Nat
  BY <1>2, AppendProperties, LenProperties DEF Str, Slash
<1> SUFFICES ASSUME HasPrefix(pu \o k, pv) PROVE FALSE
  BY DEF pu, pv
<1>4. \A i \in 1 .. Len(pv) : i <= Len(pu) => pv[i] = pu[i]
  <2> DEFINE x == pu \o k
  <2>1. /\ x \in Str /\ Len(x) = Len(pu) + Len(k) /\ Len(k) \in Nat
        /\ \A i \in 1 .. Len(pu) : x[i] = pu[i]
    <3>1. pu \in Seq(Nat) /\ k \in Seq(Nat)
      BY <1>2 DEF Str
    <3>2. /\ x \in Seq(Nat) /\ Len(x) = Len(pu) + Len(k)
          /\ \A i \in 1 .. Len(pu) + Len(k) : x[i] = IF i <= Len(pu) THEN pu[i] ELSE k[i - Len(pu)]
      BY <3>1, ConcatProperties
    <3>3. Len(k) \in Nat /\ Len(pu) \in Nat
      BY <3>1, LenProperties
    <3> HIDE DEF x
    <3> QED BY <3>2, <3>3 DEF Str
  <2>2. \A i \in 1 .. Len(pv) : pv[i] = x[i]
    BY <1>2, <2>1, PrefixIs
  <2> HIDE DEF x
  <2> QED BY <1>3, <2>1, <2>2
<1>5. CASE Len(cu) = Len(cv)
  <2>1. \A i \in 1 .. Len(cu) : cu[i] = cv[i]
    BY <1>3, <1>4, <1>5
  <2> QED BY <1>1, <1>2, <1>5, <2>1, SeqEqual DEF Str
<1>6. CASE Len(cu) < Len(cv)
  <2>1. \A i \in 1 .. Len(pu) : pu[i] = cv[i]
    BY <1>3, <1>4, <1>6
  <2>2. HasPrefix(cv, pu)
    <3>1. pu \in Str /\ cv \in Str /\ Len(pu) <= Len(cv)
      BY <1>2, <1>3, <1>6
    <3> QED BY <2>1, <3>1, PrefixIs
  <2> QED BY <1>1, <1>2, <2>2 DEF HasPrefix
<1>7. CASE Len(cv) < Len(cu)
  <2>1. \A i \in 1 .. Len(pv) : pv[i] = cu[i]
    BY <1>3, <1>4, <1>7
  <2>2. HasPrefix(cu, pv)
    <3>1. pv \in Str /\ cu \in Str /\ Len(pv) <= Len(cu)
      BY <1>2, <1>3, <1>7
    <3> QED BY <2>1, <3>1, PrefixIs
  <2> QED BY <1>1, <1>2, <2>2 DEF HasPrefix
<1> QED BY <1>3, <1>5, <1>6, <1>7

---------------------------------------------------------------------------
(* The inductive invariant.  Its first half says what client an operation   *)
(* is about to use ...                                                      *)

Configs == {Config[v] : v \in DOMAIN Config}

ClientTypes ==
    /\ clients \in [Clients!Keys -> ClientType \cup {None}]
    /\ made \in Nat
    /\ pc \in [Request -> {"idle", "lookup", "create", "got", "failed"}]
    /\ cfg \in [Request -> Configs \cup {None}]
    /\ got \in [Request -> ClientType \cup {None}]
    /\ DOMAIN bucket = Request

(* A client in the map talks to what its key says. *)
ClientsFitKeys ==
    \A k \in Clients!Keys : clients[k] # None =>
        clients[k].endpoint = Clients!Endpoint(k) /\ clients[k].region = k.region

(* An operation on a virtual bucket goes by that bucket's configuration, or *)
(* without one by the backend's; a client it has from the map is there.     *)
OperationOK(r) ==
    /\ pc[r] = "idle" => cfg[r] = None /\ bucket[r] = None
    /\ pc[r] # "idle" => bucket[r] \in Bucket
    /\ pc[r] = "got" => got[r] \in ClientType
    /\ pc[r] \in {"lookup", "create"} => cfg[r] # None
    /\ pc[r] # "idle" /\ cfg[r] # None /\ bucket[r] \in Virtual =>
          bucket[r] \in DOMAIN Config /\ cfg[r] = Config[bucket[r]]
    /\ pc[r] = "got" /\ cfg[r] # None =>
          got[r] = clients[Clients!ClientKey(cfg[r])] /\ got[r] # None
    /\ pc[r] = "got" /\ cfg[r] = None =>
          got[r] = Clients!DefaultClient /\ bucket[r] \notin DOMAIN Config
    /\ r = Lister /\ pc[r] # "idle" => bucket[r] = target

ClientInv == ClientTypes /\ ClientsFitKeys /\ \A r \in Request : OperationOK(r)

(* ... and its second half what is in the buckets: what lies under the      *)
(* prefix of a virtual bucket was stored there by requests about it.        *)
RealPlace == Places \X {MapBucket(b) : b \in Bucket}

ObjectTypes ==
    /\ real \in [RealPlace -> SUBSET Str]
    /\ existed \in [Virtual -> SUBSET Str]
    /\ target \in Virtual /\ query \in Query

Under(v) == {k \in real[Place[v]] : HasPrefix(k, GetPrefixForBucket(v))}

View(v) == {TrimPrefix(k, GetPrefixForBucket(v)) : k \in Under(v)}

StoredIsOwn == \A v \in Virtual : View(v) \subseteq existed[v]

ObjectInv == ObjectTypes /\ StoredIsOwn /\ ListedIsOwn

IInv == ClientInv /\ ObjectInv

---------------------------------------------------------------------------
(* Clients. *)

(* The key of a configuration, and the client made from it. *)
LEMMA ConfigFacts ==
    ASSUME NEW c \in Configs
    PROVE  /\ Clients!ClientKey(c) \in Clients!Keys /\ c # None
           /\ Clients!ClientKey(c).region = c.region
           /\ Clients!Endpoint(Clients!ClientKey(c)) = Clients!Endpoint(c)
           /\ \A n \in Nat : LET cl == Clients!NewClient(c, n) IN
                 /\ cl \in ClientType /\ cl # None
                 /\ cl.endpoint = Clients!Endpoint(c) /\ cl.region = c.region
<1>1. PICK v \in DOMAIN Config : c = Config[v]
  BY DEF Configs
<1>2. /\ Clients!ClientKey(c) \in Clients!Keys /\ c # None
      /\ Clients!ClientKey(c).region = c.region /\ Clients!ClientKey(c).endpoint = c.endpoint
  BY <1>1, NoneAssumption DEF Clients!ClientKey, Clients!Keys
<1>3. Clients!Endpoint(Clients!ClientKey(c)) = Clients!Endpoint(c)
  BY <1>2 DEF Clients!Endpoint
<1>4. /\ Clients!Endpoint(c) \in Places
      /\ c.region \in {Config[w].region : w \in DOMAIN Config}
      /\ Clients!Credentials(c) \in {Default.creds} \cup {Config[w].creds : w \in DOMAIN Config}
  BY <1>1 DEF Clients!Endpoint, Clients!Credentials, Places
<1>5. ASSUME NEW n \in Nat
      PROVE  LET cl == Clients!NewClient(c, n) IN
                 /\ cl \in ClientType /\ cl # None
                 /\ cl.endpoint = Clients!Endpoint(c) /\ cl.region = c.region
  BY <1>4, NoneAssumption DEF Clients!NewClient, ClientType
<1> QED BY <1>2, <1>3, <1>5

(* The backend's own client. *)
LEMMA DefaultFacts ==
    /\ Clients!DefaultClient \in ClientType
    /\ Clients!DefaultClient.endpoint = Default.endpoint
  BY DEF Clients!DefaultClient, Clients!NewClient, Clients!Endpoint, Clients!Credentials,
         ClientType, Places

(* getClientForBucket. *)
LEMMA BeginStep ==
    ASSUME ClientInv, NEW r \in Request, NEW v \in Bucket, Clients!GetClientForBucket(r, v),
           bucket' = [bucket EXCEPT ![r] = v], target' = target, r = Lister => v = target
    PROVE  ClientInv'
<1>1. /\ clients' = clients /\ made' = made /\ pc[r] = "idle" /\ ClientTypes
      /\ bucket'[r] = v /\ DOMAIN bucket' = Request
      /\ \A q \in Request : q # r => bucket'[q] = bucket[q]
  BY DEF ClientInv, ClientTypes, Clients!GetClientForBucket, Clients!UseConfig, Clients!Take
<1>2. \A q \in Request : q # r => pc'[q] = pc[q] /\ cfg'[q] = cfg[q] /\ got'[q] = got[q]
  BY <1>1 DEF ClientTypes, Clients!GetClientForBucket, Clients!UseConfig, Clients!Take
<1>3. ASSUME NEW q \in Request, q # r PROVE OperationOK(q)'
  BY <1>1, <1>2, <1>3 DEF ClientInv, OperationOK
<1>4. ClientsFitKeys'
  BY <1>1 DEF ClientInv, ClientsFitKeys
<1>5. ASSUME NEW c \in Configs, Clients!UseConfig(r, c), v \in Virtual => v \in DOMAIN Config /\ c = Config[v]
      PROVE  ClientTypes' /\ OperationOK(r)'
  <2>1. pc'[r] = "lookup" /\ cfg'[r] = c /\ c # None
    BY <1>5, ConfigFacts DEF ClientInv, ClientTypes, Clients!UseConfig
  <2>2. ClientTypes'
    BY <1>1, <1>5 DEF ClientTypes, Clients!UseConfig
  <2> QED BY <1>1, <1>5, <2>1, <2>2 DEF OperationOK
<1>6. CASE v \in DOMAIN Config /\ Clients!UseConfig(r, Config[v])
  BY <1>3, <1>4, <1>5, <1>6 DEF Configs, ClientInv
<1>7. CASE v \notin DOMAIN Config /\ \E c \in Clients!ByRealName(v) : Clients!UseConfig(r, c)
  <2>1. PICK c \in Clients!ByRealName(v) : Clients!UseConfig(r, c)
    BY <1>7
  <2>2. c \in Configs /\ v \notin Virtual
    BY <1>7, UnconfiguredAssumption DEF Clients!ByRealName, Configs
  <2> QED BY <1>3, <1>4, <1>5, <2>1, <2>2 DEF ClientInv
<1>8. CASE /\ v \notin DOMAIN Config
           /\ Clients!Take(r, Clients!DefaultClient) /\ cfg' = cfg
  <2>1. pc'[r] = "got" /\ got'[r] = Clients!DefaultClient /\ cfg'[r] = None
    BY <1>1, <1>8 DEF ClientInv, ClientTypes, Clients!Take, OperationOK
  <2>2. ClientTypes'
    BY <1>1, <1>8, DefaultFacts DEF ClientTypes, Clients!Take
  <2>3. OperationOK(r)'
    BY <1>1, <1>8, <2>1, DefaultFacts DEF OperationOK
  <2> QED BY <1>3, <1>4, <2>2, <2>3 DEF ClientInv
<1> QED BY <1>6, <1>7, <1>8 DEF Clients!GetClientForBucket

(* getOrCreateClient, under either lock: a client that somebody holds stays *)
(* in the map, as only an empty place is filled.                            *)
LEMMA FindStep ==
    ASSUME ClientInv, NEW r \in Request,
           Clients!Lookup(r) \/ Clients!CreateClient(r) \/ Clients!CreateFails(r),
           UNCHANGED <<bucket, target>>
    PROVE  ClientInv'
<1> DEFINE c == cfg[r]
           k == Clients!ClientKey(c)
           new == Clients!NewClient(c, made + 1)
<1>1. /\ ClientTypes /\ pc[r] \in {"lookup", "create"} /\ cfg' = cfg
  BY DEF ClientInv, Clients!Lookup, Clients!CreateClient, Clients!CreateFails
<1>2. /\ c \in Configs /\ k \in Clients!Keys /\ made + 1 \in Nat
      /\ bucket[r] \in Virtual => bucket[r] \in DOMAIN Config /\ c = Config[bucket[r]]
      /\ r = Lister => bucket[r] = target
      /\ bucket[r] \in Bucket /\ (clients[k] # None => clients[k] \in ClientType)
  BY <1>1, ConfigFacts DEF ClientInv, ClientTypes, OperationOK
<1>3. /\ new \in ClientType /\ new # None
      /\ new.endpoint = Clients!Endpoint(k) /\ new.region = k.region /\ c # None
  BY <1>2, ConfigFacts
<1> HIDE DEF new
<1>4. CASE clients[k] # None /\ Clients!Take(r, clients[k]) /\ UNCHANGED <<clients, made>>
  <2>1. /\ ClientTypes' /\ pc'[r] = "got" /\ got'[r] = clients[k]
        /\ \A q \in Request : q # r => pc'[q] = pc[q] /\ got'[q] = got[q]
    BY <1>1, <1>2, <1>4 DEF ClientTypes, Clients!Take
  <2>2. ClientsFitKeys'
    BY <1>4 DEF ClientInv, ClientsFitKeys
  <2>3. ASSUME NEW q \in Request, q # r PROVE OperationOK(q)'
    BY <1>1, <1>4, <2>1, <2>3 DEF ClientInv, OperationOK
  <2>4. OperationOK(r)'
    BY <1>1, <1>2, <1>3, <1>4, <2>1 DEF OperationOK
  <2> QED BY <2>1, <2>2, <2>3, <2>4 DEF ClientInv
<1>5. CASE /\ clients[k] = None /\ UNCHANGED <<clients, made, got>>
           /\ \/ pc' = [pc EXCEPT ![r] = "create"] \/ pc' = [pc EXCEPT ![r] = "failed"]
  <2>1. /\ ClientTypes' /\ pc'[r] \in {"create", "failed"}
        /\ \A q \in Request : q # r => pc'[q] = pc[q]
    BY <1>1, <1>5 DEF ClientTypes
  <2>2. ClientsFitKeys'
    BY <1>5 DEF ClientInv, ClientsFitKeys
  <2>3. ASSUME NEW q \in Request, q # r PROVE OperationOK(q)'
    BY <1>1, <1>5, <2>1, <2>3 DEF ClientInv, OperationOK
  <2>4. OperationOK(r)'
    BY <1>1, <1>2, <1>3, <2>1 DEF OperationOK
  <2> QED BY <2>1, <2>2, <2>3, <2>4 DEF ClientInv
<1>6. CASE /\ clients[k] = None /\ Clients!Take(r, new)
           /\ clients' = [clients EXCEPT ![k] = new] /\ made' = made + 1
  <2>1. /\ ClientTypes' /\ pc'[r] = "got" /\ got'[r] = new
        /\ \A q \in Request : q # r => pc'[q] = pc[q] /\ got'[q] = got[q]
        /\ clients'[k] = new /\ \A j \in Clients!Keys : j # k => clients'[j] = clients[j]
    BY <1>1, <1>2, <1>3, <1>6 DEF ClientTypes, Clients!Take
  <2>2. ClientsFitKeys'
    BY <1>2, <1>3, <2>1 DEF ClientInv, ClientsFitKeys
  <2>3. ASSUME NEW q \in Request, q # r PROVE OperationOK(q)'
    <3>1. pc[q] = "got" /\ cfg[q] # None =>
             /\ Clients!ClientKey(cfg[q]) # k
             /\ clients'[Clients!ClientKey(cfg[q])] = clients[Clients!ClientKey(cfg[q])]
      <4>1. cfg[q] # None => Clients!ClientKey(cfg[q]) \in Clients!Keys
        BY <1>1, ConfigFacts DEF ClientTypes
      <4> QED BY <1>6, <2>1, <4>1 DEF ClientInv, OperationOK
    <3> QED BY <1>1, <2>1, <2>3, <3>1 DEF ClientInv, OperationOK
  <2>4. OperationOK(r)'
    BY <1>1, <1>2, <1>3, <2>1 DEF OperationOK
  <2> QED BY <2>1, <2>2, <2>3, <2>4 DEF ClientInv
<1> QED BY <1>4, <1>5, <1>6 DEF Clients!Lookup, Clients!CreateClient, Clients!CreateFails, new

(* The operation returns. *)
LEMMA EndStep ==
    ASSUME ClientInv, NEW r \in Request, End(r), target' = target
    PROVE  ClientInv'
<1>1. /\ ClientTypes' /\ clients' = clients /\ pc'[r] = "idle" /\ cfg'[r] = None
      /\ \A q \in Request : q # r => /\ pc'[q] = pc[q] /\ cfg'[q] = cfg[q]
                                     /\ got'[q] = got[q] /\ bucket'[q] = bucket[q]
      /\ bucket'[r] = None
  BY DEF ClientInv, ClientTypes, End, Clients!Finish
<1>2. ClientsFitKeys'
  BY <1>1 DEF ClientInv, ClientsFitKeys
<1>3. ASSUME NEW q \in Request PROVE OperationOK(q)'
  BY <1>1 DEF ClientInv, OperationOK
<1> QED BY <1>1, <1>2, <1>3 DEF ClientInv

(* The client an operation on a virtual bucket got reaches the place the    *)
(* bucket is configured to be at.                                           *)
LEMMA ReachedIsPlace ==
    ASSUME ClientInv, NEW r \in Request, pc[r] = "got", bucket[r] \in Virtual
    PROVE  Reached(r) = Place[bucket[r]]
<1>1. CASE cfg[r] # None
  <2>1. /\ cfg[r] \in Configs /\ bucket[r] \in DOMAIN Config /\ cfg[r] = Config[bucket[r]]
        /\ got[r] = clients[Clients!ClientKey(cfg[r])] /\ got[r] # None
    BY <1>1 DEF ClientInv, ClientTypes, OperationOK
  <2>2. got[r].endpoint = Clients!Endpoint(cfg[r])
    BY <2>1, ConfigFacts DEF ClientInv, ClientsFitKeys
  <2> QED BY <2>1, <2>2 DEF Reached, Place, Clients!Endpoint
<1>2. CASE cfg[r] = None
  BY <1>2, DefaultFacts DEF ClientInv, OperationOK, Reached, Place
<1> QED BY <1>1, <1>2

(* ... which is one of the real buckets. *)
LEMMA PlaceIsReal ==
    ASSUME NEW v \in Virtual
    PROVE  Place[v] \in RealPlace
  BY NameAssumption DEF Place, RealPlace, Places

(* ... and so is what any operation with a client reaches. *)
LEMMA ReachedIsReal ==
    ASSUME ClientInv, NEW r \in Request, pc[r] = "got"
    PROVE  bucket[r] \in Bucket /\ Reached(r) \in RealPlace
<1>1. bucket[r] \in Bucket /\ got[r] \in ClientType
  BY DEF ClientInv, OperationOK
<1>2. got[r].endpoint \in Places
  BY <1>1 DEF ClientType
<1> QED BY <1>1, <1>2 DEF Reached, RealPlace

(* Operations share the client of their key, and it is the right one. *)
LEMMA SharedFromInv == ClientInv => ClientsAreShared
<1> SUFFICES ASSUME ClientInv, NEW r \in Request, Clients!Configured(r)
             PROVE  /\ got[r] = clients[Clients!ClientKey(cfg[r])]
                    /\ got[r].endpoint = Clients!Endpoint(cfg[r])
                    /\ got[r].region = cfg[r].region
  BY DEF ClientsAreShared, Clients!OneClientPerKey, Clients!ClientReachesBucket
<1>1. /\ cfg[r] \in Configs /\ got[r] = clients[Clients!ClientKey(cfg[r])] /\ got[r] # None
  BY DEF ClientInv, ClientTypes, OperationOK, Clients!Configured
<1> QED BY <1>1, ConfigFacts DEF ClientInv, ClientsFitKeys

---------------------------------------------------------------------------
(* Objects. *)

(* The key an operation stores under in the real bucket. *)
LEMMA RealKey ==
    ASSUME NEW v, NEW key \in Key
    PROVE  /\ key \in Str /\ AddPrefixToKey(v, key) = GetPrefixForBucket(v) \o key
           /\ AddPrefixToKey(v, key) \in Str
           /\ HasPrefix(AddPrefixToKey(v, key), GetPrefixForBucket(v))
           /\ TrimPrefix(AddPrefixToKey(v, key), GetPrefixForBucket(v)) = key
<1>1. key \in Str /\ ~HasPrefix(key, <<Slash>>)
  BY KeyAssumption DEF Str
<1>2. AddPrefixToKey(v, key) = GetPrefixForBucket(v) \o key
  BY <1>1 DEF AddPrefixToKey
<1> QED BY <1>1, <1>2, BucketPrefix, TrimConcat

(* Putting a key into one virtual bucket, or deleting it there, changes it  *)
(* for that bucket and for no other.                                        *)
LEMMA OnlyThatBucket ==
    ASSUME ObjectTypes, NEW w \in Virtual, NEW key \in Key
    PROVE  /\ real' = [real EXCEPT ![Place[w]] = @ \cup {AddPrefixToKey(w, key)}] =>
                 \A v \in Virtual : View(v)' = IF v = w THEN View(v) \cup {key} ELSE View(v)
           /\ real' = [real EXCEPT ![Place[w]] = @ \ {AddPrefixToKey(w, key)}] =>
                 \A v \in Virtual : View(v)' = IF v = w THEN View(v) \ {key} ELSE View(v)
<1> DEFINE x == AddPrefixToKey(w, key)
           P(v) == GetPrefixForBucket(v)
<1>1. /\ x \in Str /\ HasPrefix(x, P(w)) /\ TrimPrefix(x, P(w)) = key
      /\ \A v \in Virtual : v # w /\ Place[v] = Place[w] => ~HasPrefix(x, P(v))
  <2>1. key \in Str /\ x = P(w) \o key
    BY RealKey
  <2>2. \A v \in Virtual : v # w /\ Place[v] = Place[w] => ~HasPrefix(x, P(v))
    BY <2>1, Separate
  <2> QED BY <2>2, RealKey
<1>2. \A v \in Virtual : Place[v] \in RealPlace /\ real[Place[v]] \subseteq Str /\ P(v) \in Str
  BY PlaceIsReal, BucketPrefix DEF ObjectTypes
<1>3. \A k \in real[Place[w]] : HasPrefix(k, P(w)) /\ TrimPrefix(k, P(w)) = key => k = x
  BY <1>2, RealKey, TrimSplits
<1> HIDE DEF x, P
<1>4. ASSUME real' = [real EXCEPT ![Place[w]] = @ \cup {x}], NEW v \in Virtual
      PROVE  View(v)' = IF v = w THEN View(v) \cup {key} ELSE View(v)
  <2>1. real'[Place[v]] = IF Place[v] = Place[w] THEN real[Place[v]] \cup {x} ELSE real[Place[v]]
    BY <1>2, <1>4 DEF ObjectTypes
  <2>2. Under(v)' = IF v = w THEN Under(v) \cup {x} ELSE Under(v)
    BY <1>1, <2>1 DEF Under, P
  <2>3. CASE v = w
    BY <1>1, <2>2, <2>3 DEF View, P
  <2>4. CASE v # w
    BY <2>2, <2>4 DEF View
  <2> QED BY <2>3, <2>4
<1>5. ASSUME real' = [real EXCEPT ![Place[w]] = @ \ {x}], NEW v \in Virtual
      PROVE  View(v)' = IF v = w THEN View(v) \ {key} ELSE View(v)
  <2>1. real'[Place[v]] = IF Place[v] = Place[w] THEN real[Place[v]] \ {x} ELSE real[Place[v]]
    BY <1>2, <1>5 DEF ObjectTypes
  <2>2. Under(v)' = IF v = w THEN Under(v) \ {x} ELSE Under(v)
    BY <1>1, <2>1 DEF Under, P
  <2>3. CASE v = w
    BY <1>1, <1>3, <2>2, <2>3 DEF View, Under, P
  <2>4. CASE v # w
    BY <2>2, <2>4 DEF View
  <2> QED BY <2>3, <2>4
<1> QED BY <1>4, <1>5 DEF x

(* What a request is about in a virtual bucket is a key of it; one that     *)
(* names a virtual bucket is about its own key there, and one that does not *)
(* is about a key of one of those behind the name at most.                  *)
LEMMA AboutFacts ==
    ASSUME ClientInv, NEW r \in Request, pc[r] = "got", NEW key \in Key, NEW v \in Virtual
    PROVE  /\ About(r, key, v) \subseteq Key
           /\ bucket[r] \in Virtual => About(r, key, v) = IF v = bucket[r] THEN {key} ELSE {}
           /\ bucket[r] \notin Virtual /\ About(r, key, v) # {} =>
                 /\ v \in Sharing[bucket[r]]
                 /\ \A u \in Virtual : u # v => About(r, key, u) = {}
                 /\ \E k \in Key : About(r, key, v) = {k}
<1> DEFINE b == bucket[r]
           x == AddPrefixToKey(bucket[r], key)
           P(u) == GetPrefixForBucket(u)
<1>1. CASE b \in Virtual
  <2>1. About(r, key, v) = {k \in {key} : b = v}
    BY <1>1 DEF About
  <2> QED BY <1>1, <2>1
<1>2. CASE b \notin Virtual
  <2>1. \A u : About(r, key, u) =
            {k \in {TrimPrefix(x, P(u))} : Reached(r) = Place[u] /\ HasPrefix(x, P(u))}
    BY <1>2 DEF About
  <2>2. b \in Bucket
    BY ReachedIsReal
  <2>3. ASSUME About(r, key, v) # {}
        PROVE  /\ v \in Sharing[b]
               /\ \A u \in Virtual : u # v => About(r, key, u) = {}
               /\ About(r, key, v) = {TrimPrefix(x, P(v))} /\ TrimPrefix(x, P(v)) \in Key
    <3>1. Reached(r) = Place[v] /\ HasPrefix(x, P(v))
      BY <2>1, <2>3
    <3>2. About(r, key, v) = {TrimPrefix(x, P(v))}
      BY <2>1, <3>1
    <3>3. TrimPrefix(x, P(v)) \in Key
      <4>1. x = ConfiguredPrefix(b) \o key /\ P(v) = ConfiguredPrefix(v)
        BY RealKey, BucketPrefix
      <4> QED BY <1>2, <2>2, <3>1, <4>1, OtherNameAssumption
    <3>4. MapBucket(v) = MapBucket(b)
      BY <3>1 DEF Reached, Place
    <3>5. v \in Sharing[b]
      BY <2>2, <3>4 DEF Sharing
    <3>6. P(v) \in Str /\ x \in Str
      BY BucketPrefix, RealKey
    <3>7. TrimPrefix(x, P(v)) \in Str /\ x = P(v) \o TrimPrefix(x, P(v))
      BY <3>1, <3>6, TrimSplits
    <3> HIDE DEF x, P
    <3>8. ASSUME NEW u \in Virtual, u # v, Place[u] = Place[v] PROVE ~HasPrefix(x, P(u))
      <4>1. PICK y \in Str : x = P(v) \o y
        BY <3>7
      <4> QED BY <3>8, <4>1, Separate DEF P
    <3>9. ASSUME NEW u \in Virtual, u # v PROVE About(r, key, u) = {}
      BY <2>1, <3>1, <3>8, <3>9
    <3> QED BY <3>2, <3>3, <3>5, <3>9
  <2> HIDE DEF x, P
  <2>4. About(r, key, v) \subseteq Key
    BY <2>3
  <2> QED BY <1>2, <2>3, <2>4
<1> QED BY <1>1, <1>2

(* Every PUT and DELETE changes of each virtual bucket what it is about.    *)
LEMMA ChangesWhatItIsAbout ==
    ASSUME ClientInv, ObjectTypes, NEW r \in Request, pc[r] = "got", NEW key \in Key
    PROVE  /\ real' = [real EXCEPT ![Reached(r)] = @ \cup {AddPrefixToKey(bucket[r], key)}] =>
                 \A v \in Virtual : View(v)' = View(v) \cup About(r, key, v)
           /\ real' = [real EXCEPT ![Reached(r)] = @ \ {AddPrefixToKey(bucket[r], key)}] =>
                 \A v \in Virtual : View(v)' = View(v) \ About(r, key, v)
<1>1. CASE bucket[r] \in Virtual
  <2>1. Reached(r) = Place[bucket[r]]
    BY <1>1, ReachedIsPlace
  <2>2. \A v \in Virtual : About(r, key, v) = IF v = bucket[r] THEN {key} ELSE {}
    BY <1>1, AboutFacts
  <2>3. PICK w \in Virtual : w = bucket[r]
    BY <1>1
  <2>4. ASSUME real' = [real EXCEPT ![Place[w]] = @ \cup {AddPrefixToKey(w, key)}], NEW v \in Virtual
        PROVE  View(v)' = View(v) \cup About(r, key, v)
    <3>1. View(v)' = IF v = w THEN View(v) \cup {key} ELSE View(v)
      BY <2>4, OnlyThatBucket
    <3> QED BY <2>2, <2>3, <3>1
  <2>5. ASSUME real' = [real EXCEPT ![Place[w]] = @ \ {AddPrefixToKey(w, key)}], NEW v \in Virtual
        PROVE  View(v)' = View(v) \ About(r, key, v)
    <3>1. View(v)' = IF v = w THEN View(v) \ {key} ELSE View(v)
      BY <2>5, OnlyThatBucket
    <3> QED BY <2>2, <2>3, <3>1
  <2> QED BY <2>1, <2>3, <2>4, <2>5
<1>2. CASE bucket[r] \notin Virtual
  <2> DEFINE x == AddPrefixToKey(bucket[r], key)
             q == Reached(r)
  <2>1. q \in RealPlace /\ x \in Str
    BY ReachedIsReal, RealKey
  <2>2. ASSUME NEW v \in Virtual
        PROVE  /\ Place[v] \in RealPlace /\ real[Place[v]] \subseteq Str
               /\ GetPrefixForBucket(v) \in Str
    BY PlaceIsReal, BucketPrefix DEF ObjectTypes
  <2>3. ASSUME NEW v \in Virtual
        PROVE  About(r, key, v) = IF q = Place[v] /\ HasPrefix(x, GetPrefixForBucket(v))
                                  THEN {TrimPrefix(x, GetPrefixForBucket(v))} ELSE {}
    BY <1>2 DEF About
  <2> HIDE DEF x, q
  <2>4. ASSUME real' = [real EXCEPT ![q] = @ \cup {x}], NEW v \in Virtual
        PROVE  View(v)' = View(v) \cup About(r, key, v)
    <3>1. real'[Place[v]] = IF Place[v] = q THEN real[Place[v]] \cup {x} ELSE real[Place[v]]
      BY <2>1, <2>2, <2>4 DEF ObjectTypes
    <3>2. CASE q = Place[v] /\ HasPrefix(x, GetPrefixForBucket(v))
      <4>1. Under(v)' = Under(v) \cup {x}
        BY <3>1, <3>2 DEF Under
      <4> QED BY <2>3, <3>2, <4>1 DEF View
    <3>3. CASE ~(q = Place[v] /\ HasPrefix(x, GetPrefixForBucket(v)))
      <4>1. Under(v)' = Under(v)
        BY <3>1, <3>3 DEF Under
      <4> QED BY <2>3, <3>3, <4>1 DEF View
    <3> QED BY <3>2, <3>3
  <2>5. ASSUME real' = [real EXCEPT ![q] = @ \ {x}], NEW v \in Virtual
        PROVE  View(v)' = View(v) \ About(r, key, v)
    <3> DEFINE p == GetPrefixForBucket(v)
    <3>1. real'[Place[v]] = IF Place[v] = q THEN real[Place[v]] \ {x} ELSE real[Place[v]]
      BY <2>1, <2>2, <2>5 DEF ObjectTypes
    <3>2. CASE q = Place[v] /\ HasPrefix(x, p)
      <4>1. Under(v)' = Under(v) \ {x}
        BY <3>1, <3>2 DEF Under
      <4>2. ASSUME NEW k \in Under(v), TrimPrefix(k, p) = TrimPrefix(x, p) PROVE k = x
        <5>1. k \in Str /\ HasPrefix(k, p) /\ p \in Str
          BY <2>2 DEF Under
        <5> HIDE DEF p
        <5> QED BY <2>1, <3>2, <4>2, <5>1, TrimSplits
      <4>3. View(v) = {TrimPrefix(k, p) : k \in Under(v)} /\ View(v)' = {TrimPrefix(k, p) : k \in Under(v)'}
        BY DEF View
      <4> HIDE DEF p
      <4>4. View(v)' = View(v) \ {TrimPrefix(x, p)}
        BY <4>1, <4>2, <4>3
      <4> QED BY <2>3, <3>2, <4>4 DEF p
    <3>3. CASE ~(q = Place[v] /\ HasPrefix(x, p))
      <4>1. Under(v)' = Under(v)
        BY <3>1, <3>3 DEF Under
      <4> QED BY <2>3, <3>3, <4>1 DEF View
    <3> QED BY <3>2, <3>3
  <2> QED BY <2>4, <2>5 DEF x, q
<1> QED BY <1>1, <1>2

(* A page shows what is under the prefix of the bucket it is of. *)
LEMMA PageIsOwn ==
    ASSUME ObjectTypes, NEW e \in Entries(Place[target], ActualPrefix(target), RealMarker(target)),
           HasPrefix(e.name, GetPrefixForBucket(target))
    PROVE  LET name == RemovePrefixFromKey(target, e.name) IN
           /\ ~e.folder => name \in View(target)
           /\ e.folder => \E k \in View(target) : HasPrefix(k, name)
<1> DEFINE p == GetPrefixForBucket(target)
           a == ActualPrefix(target)
           name == RemovePrefixFromKey(target, e.name)
<1>1. /\ p \in Str /\ a \in Str /\ a = p \o query.prefix /\ query.prefix \in Str
  BY BucketPrefix, QueryAssumption, TrimConcat DEF ActualPrefix, ObjectTypes, Str
<1>2. PICK key \in real[Place[target]] : HasPrefix(key, a) /\ e = Entry(key, a)
  BY DEF Entries
<1>3. key \in Str
  BY <1>2, PlaceIsReal DEF ObjectTypes
<1>4. name = TrimPrefix(e.name, p)
  BY DEF RemovePrefixFromKey
<1>5. CASE e = [folder |-> FALSE, name |-> key]
  <2>1. key \in Under(target)
    BY <1>2, <1>5 DEF Under
  <2> QED BY <1>4, <1>5, <2>1 DEF View
<1>6. CASE /\ Delimiters(key, Len(a)) # {}
           /\ e = [folder |-> TRUE, name |-> CommonPrefix(key, Len(a))]
  <2> DEFINE c == CommonPrefix(key, Len(a))
             n == TrimPrefix(c, p)
             k == TrimPrefix(key, p)
  <2>1. c \in Str /\ HasPrefix(key, c) /\ HasPrefix(c, p)
    BY <1>1, <1>3, <1>6, CommonPrefixIs, LenProperties DEF Str
  <2>2. HasPrefix(key, p)
    BY <1>1, <1>3, <2>1, PrefixIs, LenProperties DEF Str
  <2> HIDE DEF c, p
  <2>3. /\ n \in Str /\ c = p \o n
        /\ k \in Str /\ key = p \o k
    BY <1>1, <1>3, <2>1, <2>2, TrimSplits
  <2> HIDE DEF n, k
  <2>4. HasPrefix(k, n)
    BY <1>1, <1>3, <2>1, <2>3, SameRest
  <2>5. k \in View(target)
    BY <1>2, <2>2 DEF View, Under, k, p
  <2> QED BY <1>4, <1>6, <2>4, <2>5 DEF n, c, p
<1> QED BY <1>2, <1>5, <1>6 DEF Entry

---------------------------------------------------------------------------
(* The invariant holds. *)

(* All is empty at first, and nobody has a client. *)
LEMMA InitInv == Init => IInv
<1> SUFFICES ASSUME Init PROVE IInv
  OBVIOUS
<1>1. ClientInv
  BY DEF Init, Clients!Init, ClientInv, ClientTypes, ClientsFitKeys, OperationOK
<1>2. ObjectTypes
  BY DEF Init, ObjectTypes, RealPlace
<1>3. StoredIsOwn
  BY PlaceIsReal DEF Init, StoredIsOwn, View, Under, RealPlace
<1> QED BY <1>1, <1>2, <1>3 DEF IInv, ObjectInv, ListedIsOwn, Init

(* A step that changes no object and shows none. *)
LEMMA ObjectsSame ==
    ASSUME ObjectInv, UNCHANGED <<real, existed, target, query, listed, folders>>
    PROVE  ObjectInv'
  BY DEF ObjectInv, ObjectTypes, StoredIsOwn, ListedIsOwn, View, Under

(* What was listed was stored at some time, and that does not change. *)
LEMMA PutStep ==
    ASSUME IInv, NEW r \in Request, NEW key \in Key, PutObject(r, key)
    PROVE  IInv'
<1> DEFINE x == AddPrefixToKey(bucket[r], key)
<1>1. /\ ClientInv /\ ObjectTypes /\ StoredIsOwn /\ ListedIsOwn /\ pc[r] = "got"
      /\ real' = [real EXCEPT ![Reached(r)] = @ \cup {x}]
      /\ existed' = [v \in Virtual |-> existed[v] \cup About(r, key, v)] /\ End(r)
      /\ UNCHANGED <<target, query, listed, folders>>
  BY DEF IInv, ObjectInv, PutObject, client
<1>2. ClientInv'
  BY <1>1, EndStep
<1>3. Reached(r) \in RealPlace /\ x \in Str
  BY <1>1, ReachedIsReal, RealKey
<1>4. \A v \in Virtual : About(r, key, v) \subseteq Str
  BY <1>1, AboutFacts, KeyAssumption DEF Str
<1>5. \A v \in Virtual : View(v)' = View(v) \cup About(r, key, v)
  BY <1>1, ChangesWhatItIsAbout
<1> HIDE DEF x
<1>6. ObjectTypes'
  BY <1>1, <1>3, <1>4 DEF ObjectTypes
<1>7. StoredIsOwn'
  BY <1>1, <1>5 DEF StoredIsOwn
<1>8. ListedIsOwn'
  BY <1>1 DEF ListedIsOwn, ObjectTypes
<1> QED BY <1>2, <1>6, <1>7, <1>8 DEF IInv, ObjectInv

(* A delete only takes away. *)
LEMMA DeleteStep ==
    ASSUME IInv, NEW r \in Request, NEW key \in Key, DeleteObject(r, key)
    PROVE  IInv'
<1> DEFINE x == AddPrefixToKey(bucket[r], key)
<1>1. /\ ClientInv /\ ObjectTypes /\ StoredIsOwn /\ ListedIsOwn /\ pc[r] = "got"
      /\ real' = [real EXCEPT ![Reached(r)] = @ \ {x}] /\ End(r)
      /\ UNCHANGED <<existed, target, query, listed, folders>>
  BY DEF IInv, ObjectInv, DeleteObject, client
<1>2. ClientInv'
  BY <1>1, EndStep
<1>3. Reached(r) \in RealPlace
  BY <1>1, ReachedIsReal
<1>4. \A v \in Virtual : View(v)' \subseteq View(v)
  <2>1. \A v \in Virtual : View(v)' = View(v) \ About(r, key, v)
    BY <1>1, ChangesWhatItIsAbout
  <2> QED BY <2>1
<1> HIDE DEF x
<1>5. ObjectTypes'
  BY <1>1, <1>3 DEF ObjectTypes
<1>6. StoredIsOwn'
  BY <1>1, <1>4 DEF StoredIsOwn
<1>7. ListedIsOwn'
  BY <1>1 DEF ListedIsOwn
<1> QED BY <1>2, <1>5, <1>6, <1>7 DEF IInv, ObjectInv

(* A page adds what the bucket it is of holds. *)
LEMMA ListStep ==
    ASSUME IInv, ListPage
    PROVE  IInv'
<1> DEFINE es == Entries(Reached(Lister), ActualPrefix(target), RealMarker(target))
           p == GetPrefixForBucket(target)
           name(e) == RemovePrefixFromKey(target, e.name)
           names(folder) == {RemovePrefixFromKey(target, e.name) :
               e \in {f \in PageOf(es) : f.folder = folder /\ HasPrefix(f.name, p)}}
<1>1. /\ ClientInv /\ ObjectInv /\ ObjectTypes /\ StoredIsOwn /\ ListedIsOwn
      /\ Lister \in Request /\ pc[Lister] = "got" /\ target \in Virtual
      /\ End(Lister) /\ UNCHANGED <<real, existed, target, query>>
      /\ listed' \subseteq listed \cup names(FALSE)
      /\ folders' = folders \cup names(TRUE)
  BY NameAssumption DEF IInv, ObjectInv, ObjectTypes, ListPage
<1>2. ClientInv'
  BY <1>1, EndStep
<1>3. es = Entries(Place[target], ActualPrefix(target), RealMarker(target))
  <2>1. bucket[Lister] = target
    BY <1>1 DEF ClientInv, OperationOK
  <2> QED BY <1>1, <2>1, ReachedIsPlace
<1>4. PageOf(es) \subseteq es
  BY DEF PageOf
<1> HIDE DEF es
<1>5. names(FALSE) \subseteq View(target)
  BY <1>1, <1>3, <1>4, PageIsOwn
<1>6. \A f \in names(TRUE) : \E k \in View(target) : HasPrefix(k, f)
  BY <1>1, <1>3, <1>4, PageIsOwn
<1> HIDE DEF names
<1>7. ListedIsOwn'
  BY <1>1, <1>5, <1>6 DEF ListedIsOwn, StoredIsOwn
<1>8. ObjectTypes' /\ StoredIsOwn'
  BY <1>1 DEF ObjectTypes, StoredIsOwn, View, Under
<1> QED BY <1>2, <1>7, <1>8 DEF IInv, ObjectInv

(* Every step keeps the invariant. *)
LEMMA NextInv == IInv /\ [Next]_vars => IInv'
<1> SUFFICES ASSUME IInv, [Next]_vars PROVE IInv'
  OBVIOUS
<1>1. ClientInv /\ ObjectInv /\ Lister \in Request
  BY NameAssumption DEF IInv
<1>2. ASSUME NEW r \in Request, NEW v \in Bucket, r = Lister => v = target, Begin(r, v) PROVE IInv'
  BY <1>1, <1>2, BeginStep, ObjectsSame DEF IInv, Begin, client
<1>3. ASSUME NEW r \in Request, FindClient(r) PROVE IInv'
  BY <1>1, <1>3, FindStep, ObjectsSame DEF IInv, FindClient, client
<1>4. ASSUME NEW r \in Request, EndWithoutEffect(r) PROVE IInv'
  BY <1>1, <1>4, EndStep, ObjectsSame DEF IInv, EndWithoutEffect, client
<1>5. ASSUME GiveUp PROVE IInv'
  BY <1>1, <1>5, EndStep, ObjectsSame DEF IInv, GiveUp
<1>6. ASSUME UNCHANGED <<operations, real, existed, target, query, listed, folders>> PROVE IInv'
  <2>1. ClientInv'
    BY <1>1, <1>6 DEF operations, ClientInv, ClientTypes, ClientsFitKeys, OperationOK
  <2> QED BY <1>1, <1>6, <2>1, ObjectsSame DEF IInv
<1>7. CASE List
  <2>1. target \in Bucket
    BY <1>1, NameAssumption DEF ObjectInv, ObjectTypes
  <2> QED BY <1>1, <1>2, <1>3, <1>5, <1>6, <1>7, <2>1, ListStep DEF List, StartListing, AskForPage
<1>8. ASSUME NEW r \in Request \ {Lister}, Operate(r) PROVE IInv'
  BY <1>2, <1>3, <1>4, <1>8, PutStep, DeleteStep DEF Operate
<1>9. CASE UNCHANGED vars
  BY <1>6, <1>9 DEF vars, client
<1> QED BY <1>7, <1>8, <1>9 DEF Next

(* The invariant of the backend's clients and virtual buckets. *)
THEOREM Invariance == Spec => []IInv
<1> QED BY InitInv, NextInv, PTL DEF Spec

(* Operations that ask getClientForBucket at once share one client per key  *)
(* of the map, and whichever bucket it was created for, it talks to the     *)
(* endpoint and the region of the bucket it is used for: for any buckets,   *)
(* configurations and operations.                                           *)
THEOREM OneClientForAll == Spec => []ClientsAreShared
<1>1. IInv => ClientsAreShared
  BY SharedFromInv DEF IInv
<1> QED BY <1>1, Invariance, PTL

(* ListObjectsWithDelimiter shows keys and common prefixes of what requests *)
(* to that virtual bucket stored, or such as name no virtual bucket and     *)
(* reach its part of the real one; of what requests to other virtual        *)
(* buckets store in the same real bucket it shows nothing.                  *)
THEOREM ListingsShowTheirOwn == Spec => []ListedIsOwn
<1>1. IInv => ListedIsOwn
  BY DEF IInv, ObjectInv
<1> QED BY <1>1, Invariance, PTL

---------------------------------------------------------------------------
(* Refinement: the views are the sets of keys that Buckets promises. *)

Views == [v \in Virtual |->
    LET prefix == GetPrefixForBucket(v) IN
    {TrimPrefix(k, prefix) : k \in {r \in real[Place[v]] : HasPrefix(r, prefix)}}]

(* At first all are empty. *)
LEMMA InitRefines == Init => Abstract!Init
  BY PlaceIsReal DEF Init, Abstract!Init, RealPlace

(* A request and its end change who asks for what. *)
LEMMA EndNames ==
    ASSUME ClientInv, NEW r \in Request, End(r)
    PROVE  bucket[r] \in Bucket /\ Abstract!Answered(r)
  BY DEF End, Clients!Finish, ClientInv, OperationOK, Abstract!Answered

(* A PUT or DELETE changes what it is about.  *)
LEMMA ChangeRefines ==
    ASSUME IInv, NEW r \in Request, NEW key \in Key, PutObject(r, key) \/ DeleteObject(r, key)
    PROVE  Abstract!Next
<1> DEFINE x == AddPrefixToKey(bucket[r], key)
<1>1. /\ ClientInv /\ ObjectTypes /\ pc[r] = "got" /\ End(r)
      /\ \/ real' = [real EXCEPT ![Reached(r)] = @ \cup {x}]
         \/ real' = [real EXCEPT ![Reached(r)] = @ \ {x}]
  BY DEF IInv, ObjectInv, PutObject, DeleteObject
<1>2. bucket[r] \in Bucket /\ Abstract!Answered(r)
  BY <1>1, EndNames
<1>3. \/ \A v \in Virtual : View(v)' = View(v) \cup About(r, key, v)
      \/ \A v \in Virtual : View(v)' = View(v) \ About(r, key, v)
  BY <1>1, ChangesWhatItIsAbout
<1> HIDE DEF x
<1>4. Views = [v \in Virtual |-> View(v)] /\ Views' = [v \in Virtual |-> View(v)']
  BY DEF Views, View, Under
<1>5. CASE \A v \in Virtual : About(r, key, v) = {}
  <2>1. Views' = Views
    BY <1>3, <1>4, <1>5
  <2>2. Abstract!Without(r)
    BY <1>2, <2>1 DEF Abstract!Without, Views
  <2> QED BY <1>2, <2>2 DEF Abstract!Next
<1>6. ASSUME NEW w \in Virtual, About(r, key, w) # {} PROVE Abstract!Next
  <2>1. /\ Abstract!Reaches(r, w)
        /\ \A v \in Virtual : v # w => About(r, key, v) = {}
        /\ \E k \in Key : About(r, key, w) = {k}
    <3>1. CASE bucket[r] \in Virtual
      <4>1. \A v \in Virtual : About(r, key, v) = IF v = bucket[r] THEN {key} ELSE {}
        BY <1>1, <3>1, AboutFacts
      <4>2. w = bucket[r]
        BY <1>6, <4>1
      <4> QED BY <3>1, <4>1, <4>2 DEF Abstract!Reaches
    <3>2. CASE bucket[r] \notin Virtual
      <4>1. /\ w \in Sharing[bucket[r]]
            /\ \A v \in Virtual : v # w => About(r, key, v) = {}
            /\ \E k \in Key : About(r, key, w) = {k}
        BY <1>1, <1>6, <3>2, AboutFacts
      <4> QED BY <3>2, <4>1 DEF Abstract!Reaches
    <3> QED BY <3>1, <3>2
  <2>2. PICK k \in Key : About(r, key, w) = {k}
    BY <2>1
  <2>3. \/ Views' = [Views EXCEPT ![w] = @ \cup {k}]
        \/ Views' = [Views EXCEPT ![w] = @ \ {k}]
    <3>1. CASE \A v \in Virtual : View(v)' = View(v) \cup About(r, key, v)
      <4>1. View(w)' = View(w) \cup {k} /\ \A v \in Virtual : v # w => View(v)' = View(v)
        BY <2>1, <2>2, <3>1
      <4> QED BY <1>4, <4>1
    <3>2. CASE \A v \in Virtual : View(v)' = View(v) \ About(r, key, v)
      <4>1. View(w)' = View(w) \ {k} /\ \A v \in Virtual : v # w => View(v)' = View(v)
        BY <2>1, <2>2, <3>2
      <4> QED BY <1>4, <4>1
    <3> QED BY <1>3, <3>1, <3>2
  <2>4. Abstract!Put(r, w, k) \/ Abstract!Delete(r, w, k)
    BY <1>2, <2>1, <2>3 DEF Abstract!Put, Abstract!Delete, Views
  <2> QED BY <1>2, <2>4 DEF Abstract!Next
<1> QED BY <1>5, <1>6

(* A step of the backend changes one key of one virtual bucket, or none.    *)
LEMMA StepRefines ==
    ASSUME IInv, IInv', [Next]_vars
    PROVE  [Abstract!Next]_<<bucket, Views>>
<1>1. ASSUME real' = real PROVE Views' = Views
  BY <1>1 DEF Views
<1>2. ClientInv /\ target \in Bucket /\ Lister \in Request
  BY NameAssumption DEF IInv, ObjectInv, ObjectTypes
<1>3. ASSUME NEW r \in Request, NEW v \in Bucket, Begin(r, v) PROVE Abstract!Next
  <2>1. bucket[r] = None /\ bucket' = [bucket EXCEPT ![r] = v] /\ Views' = Views
    BY <1>1, <1>2, <1>3 DEF Begin, Clients!GetClientForBucket, ClientInv, OperationOK
  <2>2. Abstract!Ask(r, v)
    BY <2>1 DEF Abstract!Ask, Views
  <2> QED BY <2>2 DEF Abstract!Next
<1>4. ASSUME NEW r \in Request, End(r), real' = real PROVE Abstract!Next
  <2>1. bucket[r] \in Bucket /\ Abstract!Answered(r) /\ Views' = Views
    BY <1>1, <1>2, <1>4, EndNames
  <2> QED BY <2>1 DEF Abstract!Next, Abstract!Without, Views
<1>5. ASSUME UNCHANGED <<bucket, real>> PROVE UNCHANGED <<bucket, Views>>
  BY <1>1, <1>5
<1>6. CASE List
  <2>1. CASE StartListing
    BY <1>5, <2>1 DEF StartListing, operations
  <2>2. CASE AskForPage
    BY <1>2, <1>3, <2>2 DEF AskForPage
  <2>3. CASE FindClient(Lister)
    BY <1>5, <2>3 DEF FindClient
  <2>4. CASE ListPage \/ GiveUp
    BY <1>2, <1>4, <2>4 DEF ListPage, GiveUp
  <2> QED BY <1>6, <2>1, <2>2, <2>3, <2>4 DEF List
<1>7. ASSUME NEW r \in Request \ {Lister}, Operate(r)
      PROVE  Abstract!Next \/ UNCHANGED <<bucket, Views>>
  <2>1. CASE EndWithoutEffect(r)
    BY <1>4, <2>1 DEF EndWithoutEffect
  <2>2. CASE FindClient(r)
    BY <1>5, <2>2 DEF FindClient
  <2> QED BY <1>3, <1>7, <2>1, <2>2, ChangeRefines DEF Operate
<1>8. CASE UNCHANGED vars
  BY <1>5, <1>8 DEF vars, operations
<1> QED BY <1>6, <1>7, <1>8 DEF Next

(* Virtual buckets that share real ones are isolated from each other: for   *)
(* any number of them, any prefixes that do not nest, and any concurrent    *)
(* operations, a request that names one changes the keys of that one only.  *)
(* A request under another name of the real bucket changes at most one key  *)
(* of one of the virtual buckets behind that name.                          *)
THEOREM BucketsAreIsolated == Spec => Isolation
<1>1. IInv /\ IInv' /\ [Next]_vars => [Abstract!Next]_<<bucket, Views>>
  BY StepRefines
<1> QED BY <1>1, InitRefines, Invariance, PTL
        DEF Spec, Isolation, Abstract!Spec, Abstract!vars, Views

---------------------------------------------------------------------------
(* The order of keys. *)

(* The strings agree before position n. *)
Agree(s, t, n) == \A i \in 1 .. n - 1 : s[i] = t[i]

(* Less byte by byte: at the first difference, or where the lesser ends.    *)
LEMMA LessIs ==
    ASSUME NEW s \in Str, NEW t \in Str
    PROVE  Less(s, t) <=>
             \/ Len(s) < Len(t) /\ \A i \in 1 .. Len(s) : s[i] = t[i]
             \/ \E n \in 1 .. Len(s) : n <= Len(t) /\ Agree(s, t, n) /\ s[n] < t[n]
<1>1. /\ Len(s) \in Nat /\ DOMAIN s = 1 .. Len(s) /\ Len(t) \in Nat /\ DOMAIN t = 1 .. Len(t)
      /\ \A i \in 1 .. Len(s) : s[i] \in Nat
      /\ \A i \in 1 .. Len(t) : t[i] \in Nat
  BY LenProperties, ElementOfSeq DEF Str
<1>2. IsPrefix(s, t) <=> Len(s) <= Len(t) /\ \A i \in 1 .. Len(s) : s[i] = t[i]
  BY PrefixIs DEF HasPrefix
<1>3. IsStrictPrefix(s, t) <=> Len(s) < Len(t) /\ \A i \in 1 .. Len(s) : s[i] = t[i]
  <2>1. ASSUME IsStrictPrefix(s, t) PROVE Len(s) < Len(t) /\ \A i \in 1 .. Len(s) : s[i] = t[i]
    <3>1. Len(s) <= Len(t) /\ \A i \in 1 .. Len(s) : s[i] = t[i]
      BY <1>2, <2>1 DEF IsStrictPrefix
    <3>2. s # t
      BY <2>1 DEF IsStrictPrefix
    <3>3. Len(s) # Len(t)
      <4>1. s \in Seq(Nat) /\ t \in Seq(Nat)
        BY DEF Str
      <4> SUFFICES ASSUME Len(s) = Len(t) PROVE FALSE
        OBVIOUS
      <4>2. s = t
        BY <3>1, <4>1, SeqEqual
      <4> QED BY <3>2, <4>2
    <3>4. PICK m \in Nat, n \in Nat : m = Len(s) /\ n = Len(t)
      BY <1>1
    <3>5. m < n
      BY <3>1, <3>3, <3>4
    <3> QED BY <3>1, <3>4, <3>5
  <2>2. ASSUME Len(s) < Len(t), \A i \in 1 .. Len(s) : s[i] = t[i] PROVE IsStrictPrefix(s, t)
    <3>1. s # t
      BY <1>1, <2>2
    <3> QED BY <1>1, <1>2, <2>2, <3>1 DEF IsStrictPrefix
  <2> QED BY <2>1, <2>2
<1>4. ASSUME NEW n \in 1 .. Len(s), n <= Len(t)
      PROVE  SubSeq(s, 1, n - 1) = SubSeq(t, 1, n - 1) <=> Agree(s, t, n)
  <2>1. PICK m \in Nat : m = n - 1 /\ m <= Len(s) /\ m <= Len(t)
    BY <1>1, <1>4
  <2>2. /\ SubSeq(s, 1, m) \in Seq(Nat) /\ Len(SubSeq(s, 1, m)) = m
        /\ \A i \in 1 .. m : SubSeq(s, 1, m)[i] = s[i]
    BY <1>1, <2>1, SubSeqProperties
  <2>3. /\ SubSeq(t, 1, m) \in Seq(Nat) /\ Len(SubSeq(t, 1, m)) = m
        /\ \A i \in 1 .. m : SubSeq(t, 1, m)[i] = t[i]
    BY <1>1, <2>1, SubSeqProperties
  <2>4. SubSeq(s, 1, m) = SubSeq(t, 1, m) <=> \A i \in 1 .. m : s[i] = t[i]
    BY <2>2, <2>3, SeqEqual
  <2> QED BY <2>1, <2>4 DEF Agree
<1>5. (\E n \in DOMAIN s \cap DOMAIN t : /\ SubSeq(s, 1, n - 1) = SubSeq(t, 1, n - 1)
                                         /\ s[n] < t[n])
      <=> \E n \in 1 .. Len(s) : n <= Len(t) /\ Agree(s, t, n) /\ s[n] < t[n]
  <2>1. \A n : n \in DOMAIN s \cap DOMAIN t <=> n \in 1 .. Len(s) /\ n <= Len(t)
    BY <1>1
  <2> QED BY <1>4, <2>1
<1> QED BY <1>3, <1>5 DEF Less

(* Of two different strings one is less, and not both. *)
LEMMA LessTotal ==
    ASSUME NEW s \in Str, NEW t \in Str
    PROVE  s = t \/ Less(s, t) \/ Less(t, s)
<1>1. /\ Len(s) \in Nat /\ Len(t) \in Nat
      /\ \A i \in 1 .. Len(s) : s[i] \in Nat
      /\ \A i \in 1 .. Len(t) : t[i] \in Nat
  BY LenProperties, ElementOfSeq DEF Str
<1> DEFINE D == {i \in 1 .. Len(s) : i <= Len(t) /\ s[i] # t[i]}
<1>2. CASE D = {}
  <2>1. \A i \in 1 .. Len(s) : i <= Len(t) => s[i] = t[i]
    BY <1>2
  <2>2. CASE Len(s) = Len(t)
    BY <1>1, <2>1, <2>2, SeqEqual DEF Str
  <2>3. CASE Len(s) < Len(t)
    BY <1>1, <2>1, <2>3, LessIs
  <2>4. CASE Len(t) < Len(s)
    <3>1. \A i \in 1 .. Len(t) : t[i] = s[i]
      BY <1>1, <2>1, <2>4
    <3> QED BY <2>4, <3>1, LessIs
  <2> QED BY <1>1, <2>2, <2>3, <2>4
<1>3. CASE D # {}
  <2>0. D \subseteq Nat
    BY <1>1
  <2>1. PICK n \in D : \A m \in D : n <= m
    <3> HIDE DEF D
    <3> QED BY <1>3, <2>0, Least
  <2>2. /\ n \in 1 .. Len(s) /\ n <= Len(t) /\ n \in 1 .. Len(t) /\ n <= Len(s)
        /\ s[n] # t[n] /\ s[n] \in Nat /\ t[n] \in Nat
    BY <1>1
  <2>3. Agree(s, t, n) /\ Agree(t, s, n)
    <3>1. ASSUME NEW i \in 1 .. n - 1 PROVE s[i] = t[i]
      <4>1. i \in 1 .. Len(s) /\ i <= Len(t) /\ ~(n <= i)
        BY <1>1, <2>2
      <4> QED BY <2>1, <4>1
    <3> QED BY <3>1 DEF Agree
  <2>4. CASE s[n] < t[n]
    BY <2>2, <2>3, <2>4, LessIs
  <2>5. CASE t[n] < s[n]
    BY <2>2, <2>3, <2>5, LessIs
  <2> QED BY <2>2, <2>4, <2>5
<1> QED BY <1>2, <1>3

(* No string is less than itself. *)
LEMMA LessIrreflexive ==
    ASSUME NEW s \in Str
    PROVE  ~Less(s, s)
<1>1. Len(s) \in Nat /\ \A i \in 1 .. Len(s) : s[i] \in Nat
  BY LenProperties, ElementOfSeq DEF Str
<1>2. ~(Len(s) < Len(s)) /\ \A n \in 1 .. Len(s) : ~(s[n] < s[n])
  BY <1>1
<1> QED BY <1>2, LessIs

(* The order of strings is transitive. *)
LEMMA LessTransitive ==
    ASSUME NEW s \in Str, NEW t \in Str, NEW u \in Str, Less(s, t), Less(t, u)
    PROVE  Less(s, u)
<1>1. /\ Len(s) \in Nat /\ Len(t) \in Nat /\ Len(u) \in Nat
      /\ \A i \in 1 .. Len(s) : s[i] \in Nat
      /\ \A i \in 1 .. Len(t) : t[i] \in Nat
      /\ \A i \in 1 .. Len(u) : u[i] \in Nat
  BY LenProperties, ElementOfSeq DEF Str
<1>2. CASE Len(s) < Len(t) /\ \A i \in 1 .. Len(s) : s[i] = t[i]
  <2>1. CASE Len(t) < Len(u) /\ \A i \in 1 .. Len(t) : t[i] = u[i]
    <3>1. Len(s) < Len(u) /\ \A i \in 1 .. Len(s) : s[i] = u[i]
      BY <1>1, <1>2, <2>1
    <3> QED BY <3>1, LessIs
  <2>2. ASSUME NEW n \in 1 .. Len(t), n <= Len(u), Agree(t, u, n), t[n] < u[n] PROVE Less(s, u)
    <3>1. CASE n <= Len(s)
      <4>1. n \in 1 .. Len(s) /\ Agree(s, u, n) /\ s[n] < u[n]
        BY <1>1, <1>2, <2>2, <3>1 DEF Agree
      <4> QED BY <2>2, <4>1, LessIs
    <3>2. CASE Len(s) < n
      <4>1. Len(s) < Len(u) /\ \A i \in 1 .. Len(s) : s[i] = u[i]
        BY <1>1, <1>2, <2>2, <3>2 DEF Agree
      <4> QED BY <4>1, LessIs
    <3> QED BY <1>1, <3>1, <3>2
  <2> QED BY <2>1, <2>2, LessIs
<1>3. ASSUME NEW m \in 1 .. Len(s), m <= Len(t), Agree(s, t, m), s[m] < t[m] PROVE Less(s, u)
  <2>0. m \in 1 .. Len(t)
    BY <1>1, <1>3
  <2>1. CASE Len(t) < Len(u) /\ \A i \in 1 .. Len(t) : t[i] = u[i]
    <3>1. m <= Len(u) /\ Agree(s, u, m) /\ s[m] < u[m]
      BY <1>1, <1>3, <2>0, <2>1 DEF Agree
    <3> QED BY <3>1, LessIs
  <2>2. ASSUME NEW n \in 1 .. Len(t), n <= Len(u), Agree(t, u, n), t[n] < u[n] PROVE Less(s, u)
    <3>0. n \in 1 .. Len(u)
      BY <1>1, <2>2
    <3>1. CASE m < n
      <4>1. m <= Len(u) /\ Agree(s, u, m) /\ s[m] < u[m]
        BY <1>1, <1>3, <2>0, <2>2, <3>1 DEF Agree
      <4> QED BY <4>1, LessIs
    <3>2. CASE n < m
      <4>1. n \in 1 .. Len(s) /\ Agree(s, u, n) /\ s[n] < u[n]
        BY <1>1, <1>3, <2>0, <2>2, <3>2 DEF Agree
      <4> QED BY <2>2, <4>1, LessIs
    <3>3. CASE m = n
      <4>1. s[m] \in Nat /\ t[m] \in Nat /\ u[m] \in Nat /\ s[m] < t[m] /\ t[m] < u[m]
        BY <1>1, <1>3, <2>0, <2>2, <3>0, <3>3
      <4>2. m <= Len(u) /\ s[m] < u[m]
        BY <2>2, <3>3, <4>1
      <4>3. Agree(s, u, m)
        BY <1>3, <2>2, <3>3 DEF Agree
      <4> QED BY <4>2, <4>3, LessIs
    <3> QED BY <3>1, <3>2, <3>3
  <2> QED BY <2>1, <2>2, LessIs
<1> QED BY <1>2, <1>3, LessIs

---------------------------------------------------------------------------
(* Pages. *)

(* The entries before e. *)
Before(es, e) == {f \in es : Less(f.name, e.name)}

(* The number of entries before one grows with the order. *)
LEMMA BeforeGrows ==
    ASSUME NEW es, IsFiniteSet(es), \A x \in es : x.name \in Str,
           NEW e \in es, NEW f \in es, Less(e.name, f.name)
    PROVE  /\ Cardinality(Before(es, e)) \in Nat /\ Cardinality(Before(es, f)) \in Nat
           /\ Cardinality(Before(es, e)) < Cardinality(Before(es, f))
<1>1. /\ IsFiniteSet(Before(es, f)) /\ Cardinality(Before(es, f)) \in Nat
      /\ IsFiniteSet(Before(es, e)) /\ Cardinality(Before(es, e)) \in Nat
  BY FS_Subset, FS_CardinalityType DEF Before
<1>2. Before(es, e) \subseteq Before(es, f)
  BY LessTransitive DEF Before
<1>3. e \in Before(es, f) /\ e \notin Before(es, e)
  BY LessIrreflexive DEF Before
<1>4. /\ Cardinality(Before(es, e)) <= Cardinality(Before(es, f))
      /\ Cardinality(Before(es, f)) # Cardinality(Before(es, e))
  BY <1>1, <1>2, <1>3, FS_Subset
<1> QED BY <1>1, <1>4

(* What does not fit on the page comes after all that does. *)
LEMMA RestComesAfter ==
    ASSUME NEW es, IsFiniteSet(es), \A x \in es : x.name \in Str, query.maxKeys \in Nat,
           NEW e \in es, e \notin PageOf(es), NEW f \in PageOf(es)
    PROVE  Less(f.name, e.name)
<1>1. /\ f \in es /\ Cardinality(Before(es, f)) < query.maxKeys
      /\ ~(Cardinality(Before(es, e)) < query.maxKeys)
  BY DEF PageOf, Before
<1>2. f.name # e.name
  BY <1>1 DEF Before
<1>3. ~Less(e.name, f.name)
  <2> SUFFICES ASSUME Less(e.name, f.name) PROVE FALSE
    OBVIOUS
  <2>1. /\ Cardinality(Before(es, e)) \in Nat /\ Cardinality(Before(es, f)) \in Nat
        /\ Cardinality(Before(es, e)) < Cardinality(Before(es, f))
    BY <1>1, BeforeGrows
  <2> QED BY <1>1, <2>1
<1> QED BY <1>1, <1>2, <1>3, LessTotal

(* A page of a listing that is not empty has a last entry. *)
LEMMA PageHasLast ==
    ASSUME NEW es, IsFiniteSet(es), \A x \in es : x.name \in Str, query.maxKeys \in Nat \ {0},
           es # {}, \A x, y \in es : x.name = y.name => x = y
    PROVE  LastOf(PageOf(es)) \in PageOf(es)
<1> DEFINE N == Cardinality(es)
           rank(e) == Cardinality(Before(es, e))
           page == PageOf(es)
<1>1. N \in Nat /\ \A e \in es : rank(e) \in Nat /\ rank(e) <= N
  BY FS_Subset, FS_CardinalityType DEF Before
<1>2. page \subseteq es /\ \A e \in es : rank(e) < query.maxKeys => e \in page
  BY DEF PageOf, Before
<1>3. page # {}
  <2> DEFINE T == {rank(e) : e \in es}
  <2>1. T \subseteq Nat /\ T # {}
    BY <1>1
  <2> HIDE DEF T
  <2>2. PICK x \in T : \A y \in T : x <= y
    BY <2>1, Least
  <2>3. PICK e \in es : \A f \in es : rank(e) <= rank(f)
    BY <2>2 DEF T
  <2>4. Before(es, e) = {}
    <3> SUFFICES ASSUME NEW f \in Before(es, e) PROVE FALSE
      OBVIOUS
    <3>1. f \in es /\ Less(f.name, e.name)
      BY DEF Before
    <3>2. rank(f) < rank(e) /\ rank(f) \in Nat /\ rank(e) \in Nat
      BY <3>1, BeforeGrows
    <3>3. rank(e) <= rank(f)
      BY <2>3, <3>1
    <3> HIDE DEF rank
    <3> QED BY <3>2, <3>3
  <2>5. rank(e) = 0
    BY <2>4, FS_EmptySet
  <2> QED BY <1>2, <2>5
<1>4. PICK e \in page : \A f \in page : rank(f) <= rank(e)
  <2> DEFINE T == {N - rank(e) : e \in page}
  <2>1. T \subseteq Nat /\ T # {}
    <3>1. \A e \in page : N - rank(e) \in Nat
      <4> HIDE DEF N, rank, page
      <4> QED BY <1>1, <1>2
    <3> QED BY <1>3, <3>1
  <2> HIDE DEF T
  <2>2. PICK x \in T : \A y \in T : x <= y
    BY <2>1, Least
  <2>3. PICK e \in page : \A f \in page : N - rank(e) <= N - rank(f)
    BY <2>2 DEF T
  <2>4. ASSUME NEW f \in page PROVE rank(f) <= rank(e)
    <3>1. N \in Nat /\ rank(e) \in Nat /\ rank(f) \in Nat /\ N - rank(e) <= N - rank(f)
      BY <1>1, <1>2, <2>3
    <3> HIDE DEF N, rank
    <3> QED BY <3>1
  <2> QED BY <2>4
<1>5. ASSUME NEW f \in page \ {e} PROVE Less(f.name, e.name)
  <2>1. f \in es /\ e \in es /\ f.name # e.name
    BY <1>2
  <2>2. ~Less(e.name, f.name)
    <3> SUFFICES ASSUME Less(e.name, f.name) PROVE FALSE
      OBVIOUS
    <3>1. rank(e) < rank(f) /\ rank(f) \in Nat /\ rank(e) \in Nat
      BY <2>1, BeforeGrows
    <3>2. rank(f) <= rank(e)
      BY <1>4
    <3> HIDE DEF rank
    <3> QED BY <3>1, <3>2
  <2> QED BY <2>1, <2>2, LessTotal
<1> HIDE DEF page
<1>6. \E x \in page : \A f \in page \ {x} : Less(f.name, x.name)
  BY <1>5
<1>7. LastOf(page) \in page
  BY <1>6 DEF LastOf
<1> QED BY <1>7 DEF page

(* A common prefix ends in a delimiter. *)
LEMMA CommonPrefixEnds ==
    ASSUME NEW key \in Str, NEW n \in Nat, Delimiters(key, n) # {}
    PROVE  Delimiters(CommonPrefix(key, n), n) # {}
<1> DEFINE ds == Delimiters(key, n)
           m == CHOOSE i \in ds : \A j \in ds : i <= j
           c == CommonPrefix(key, n)
<1>1. ds \subseteq Nat /\ \A i \in ds : i \in n + 1 .. Len(key) /\ key[i] = Slash
  BY LenProperties DEF Delimiters, Str
<1>2. m \in ds
  <2> HIDE DEF ds
  <2>1. \E i \in ds : \A j \in ds : i <= j
    BY <1>1, Least DEF ds
  <2> QED BY <2>1
<1>3. c = SubSeq(key, 1, m)
  BY DEF CommonPrefix
<1>4. m \in Nat /\ m > n /\ m <= Len(key) /\ key[m] = Slash /\ Len(key) \in Nat
  BY <1>1, <1>2, LenProperties DEF Str
<1> HIDE DEF m
<1>5. \A i \in 1 .. m : key[i] \in Nat
  BY <1>4, ElementOfSeq DEF Str
<1>6. Len(c) = m /\ c[m] = Slash
  BY <1>3, <1>4, <1>5, SubSeqProperties
<1> HIDE DEF c
<1>7. m \in Delimiters(c, n)
  BY <1>4, <1>6 DEF Delimiters
<1> QED BY <1>7 DEF c

(* A name that stands for the keys under it. *)
Folded(name, a) == query.delimiter /\ Delimiters(name, Len(a)) # {}

(* The entry of a key with the prefix a, by whatever it is represented.     *)
LEMMA EntryFacts ==
    ASSUME NEW x \in Str, NEW a \in Str, HasPrefix(x, a)
    PROVE  LET e == Entry(x, a) IN
           /\ e.name \in Str /\ HasPrefix(e.name, a) /\ HasPrefix(x, e.name)
           /\ e.folder \/ e = [folder |-> FALSE, name |-> x]
           /\ \/ e = [folder |-> TRUE, name |-> e.name] /\ Folded(e.name, a)
              \/ e = [folder |-> FALSE, name |-> e.name] /\ ~Folded(e.name, a)
<1>0. Len(a) \in Nat /\ Len(x) \in Nat
  BY LenProperties DEF Str
<1>1. CASE query.delimiter /\ Delimiters(x, Len(a)) # {}
  <2> DEFINE c == CommonPrefix(x, Len(a))
  <2>1. /\ c \in Str /\ Len(c) > Len(a) /\ HasPrefix(x, c) /\ Delimiters(c, Len(a)) # {}
    BY <1>0, <1>1, CommonPrefixIs, CommonPrefixEnds
  <2>2. Entry(x, a) = [folder |-> TRUE, name |-> c]
    BY <1>1 DEF Entry
  <2> HIDE DEF c
  <2>3. HasPrefix(c, a)
    <3>1. Len(c) \in Nat /\ Len(a) <= Len(c)
      BY <1>0, <2>1, LenProperties DEF Str
    <3>2. \A i \in 1 .. Len(a) : a[i] = x[i]
      BY PrefixIs
    <3>3. \A i \in 1 .. Len(c) : c[i] = x[i]
      BY <2>1, PrefixIs
    <3> QED BY <1>0, <2>1, <3>1, <3>2, <3>3, PrefixIs
  <2> QED BY <1>1, <2>1, <2>2, <2>3 DEF Folded
<1>2. CASE ~(query.delimiter /\ Delimiters(x, Len(a)) # {})
  <2>1. Entry(x, a) = [folder |-> FALSE, name |-> x]
    BY <1>2 DEF Entry
  <2>2. HasPrefix(x, x)
    BY <1>0, PrefixIs
  <2> QED BY <1>2, <2>1, <2>2 DEF Folded
<1> QED BY <1>1, <1>2

(* The entries of a list request: finitely many, told apart by their names. *)
LEMMA EntriesFacts ==
    ASSUME NEW place, NEW a \in Str, NEW after, real[place] \subseteq Str,
           IsFiniteSet(real[place])
    PROVE  LET es == Entries(place, a, after) IN
           /\ IsFiniteSet(es) /\ \A e \in es : e.name \in Str
           /\ \A e, f \in es : e.name = f.name => e = f
<1> DEFINE S == {k \in real[place] : HasPrefix(k, a)}
           T == {Entry(key, a) : key \in S}
           es == Entries(place, a, after)
           g == [key \in S |-> Entry(key, a)]
<1>1. IsFiniteSet(S)
  BY FS_Subset
<1>2. g \in Surjection(S, T)
  BY DEF Surjection
<1>3. IsFiniteSet(T)
  <2> HIDE DEF S, T, g
  <2> QED BY <1>1, <1>2, FS_Surjection
<1>4. es \subseteq T
  BY DEF Entries
<1>5. IsFiniteSet(es)
  <2> HIDE DEF T, es
  <2> QED BY <1>3, <1>4, FS_Subset
<1>6. ASSUME NEW e \in T
      PROVE  /\ e.name \in Str
             /\ \/ e = [folder |-> TRUE, name |-> e.name] /\ Folded(e.name, a)
                \/ e = [folder |-> FALSE, name |-> e.name] /\ ~Folded(e.name, a)
  <2>1. PICK key \in S : e = Entry(key, a)
    OBVIOUS
  <2> QED BY <2>1, EntryFacts
<1> HIDE DEF T, es
<1>7. ASSUME NEW e \in es, NEW f \in es, e.name = f.name PROVE e = f
  <2>1. e \in T /\ f \in T
    BY <1>4
  <2>2. PICK n : n = e.name /\ n = f.name
    BY <1>7
  <2>3. \/ e = [folder |-> TRUE, name |-> n] /\ Folded(n, a)
        \/ e = [folder |-> FALSE, name |-> n] /\ ~Folded(n, a)
    BY <1>6, <2>1, <2>2
  <2>4. \/ f = [folder |-> TRUE, name |-> n] /\ Folded(n, a)
        \/ f = [folder |-> FALSE, name |-> n] /\ ~Folded(n, a)
    BY <1>6, <2>1, <2>2
  <2>5. CASE Folded(n, a)
    BY ONLY <2>3, <2>4, <2>5, Zenon
  <2>6. CASE ~Folded(n, a)
    BY ONLY <2>3, <2>4, <2>6, Zenon
  <2> QED BY <2>5, <2>6
<1> QED BY <1>4, <1>5, <1>6, <1>7 DEF es

---------------------------------------------------------------------------
(* Nothing is lost between the pages.                                       *)

Shown(k) == k \in listed \/ Placeholder(k) \/ \E f \in folders : HasPrefix(k, f)

(* The entry of a key of the bucket comes after the marker. *)
EntryOf(k) == Entry(GetPrefixForBucket(target) \o k, ActualPrefix(target))
ToCome(k) == RealMarker(target) = <<>> \/ Less(RealMarker(target), EntryOf(k).name)

(* Keys that were there all along are there; and while the client lists,    *)
(* each has been shown or comes after the marker.                           *)
ListingInv ==
    /\ \A p \in RealPlace : IsFiniteSet(real[p])
    /\ \A v \in Virtual : existed[v] \subseteq Key
    /\ st \in {"idle", "listing", "done", "failed"}
    /\ pc[Lister] # "idle" => st = "listing"
    /\ st = "idle" => marker = <<>>
    /\ kept \subseteq View(target)
    /\ st \in {"listing", "done"} => \A k \in kept : HasPrefix(k, query.prefix) =>
           Shown(k) \/ (st = "listing" /\ ToCome(k))

(* A key of the virtual bucket and the key in the real one. *)
LEMMA ViewKey ==
    ASSUME ObjectTypes, StoredIsOwn, ListingInv, NEW k \in View(target)
    PROVE  /\ k \in Str /\ ~HasPrefix(k, <<Slash>>)
           /\ GetPrefixForBucket(target) \o k \in real[Place[target]]
<1>1. target \in Virtual /\ k \in Key
  BY DEF ObjectTypes, StoredIsOwn, ListingInv
<1>2. k \in Str /\ ~HasPrefix(k, <<Slash>>)
  BY <1>1, KeyAssumption DEF Str
<1>3. PICK x \in real[Place[target]] :
          HasPrefix(x, GetPrefixForBucket(target)) /\ k = TrimPrefix(x, GetPrefixForBucket(target))
  BY DEF View, Under
<1>4. x \in Str /\ GetPrefixForBucket(target) \in Str
  BY <1>1, PlaceIsReal, BucketPrefix DEF ObjectTypes
<1> QED BY <1>2, <1>3, <1>4, TrimSplits

(* Prefixes of strings that begin with p. *)
LEMMA ConcatPrefix ==
    ASSUME NEW p \in Str, NEW s \in Str, NEW t \in Str, HasPrefix(t, s)
    PROVE  HasPrefix(p \o t, p \o s)
<1>0. p \in Seq(Nat) /\ s \in Seq(Nat) /\ t \in Seq(Nat)
  BY DEF Str
<1>1. PICK x : x = p \o s
  OBVIOUS
<1>2. PICK y : y = p \o t
  OBVIOUS
<1>3. Len(p) \in Nat /\ Len(s) \in Nat /\ Len(t) \in Nat
  BY <1>0
<1>4. /\ x \in Seq(Nat) /\ Len(x) = Len(p) + Len(s)
      /\ \A i \in 1 .. Len(p) + Len(s) : x[i] = IF i <= Len(p) THEN p[i] ELSE s[i - Len(p)]
  BY <1>0, <1>1, ConcatProperties
<1>5. /\ y \in Seq(Nat) /\ Len(y) = Len(p) + Len(t)
      /\ \A i \in 1 .. Len(p) + Len(t) : y[i] = IF i <= Len(p) THEN p[i] ELSE t[i - Len(p)]
  BY <1>0, <1>2, ConcatProperties
<1>6. Len(s) <= Len(t) /\ \A i \in 1 .. Len(s) : s[i] = t[i]
  BY PrefixIs
<1>7. ASSUME NEW i \in 1 .. Len(x) PROVE x[i] = y[i]
  <2>1. i \in 1 .. Len(p) + Len(s) /\ i \in 1 .. Len(p) + Len(t)
    BY <1>3, <1>4, <1>6
  <2>2. CASE i <= Len(p)
    BY <1>4, <1>5, <2>1, <2>2
  <2>3. CASE ~(i <= Len(p))
    <3>1. i - Len(p) \in 1 .. Len(s)
      BY <1>3, <2>1, <2>3
    <3> QED BY <1>4, <1>5, <1>6, <2>1, <2>3, <3>1
  <2> QED BY <2>2, <2>3
<1>8. Len(x) <= Len(y)
  BY <1>3, <1>4, <1>5, <1>6
<1>9. HasPrefix(y, x)
  BY <1>4, <1>5, <1>7, <1>8, PrefixIs DEF Str
<1> QED BY <1>1, <1>2, <1>9

(* A prefix of a prefix is a prefix. *)
LEMMA PrefixTransitive ==
    ASSUME NEW s \in Str, NEW t \in Str, NEW u \in Str, HasPrefix(t, s), HasPrefix(u, t)
    PROVE  HasPrefix(u, s)
<1>1. Len(s) \in Nat /\ Len(t) \in Nat /\ Len(u) \in Nat
  BY LenProperties DEF Str
<1>2. Len(s) <= Len(t) /\ \A i \in 1 .. Len(s) : s[i] = t[i]
  BY PrefixIs
<1>3. Len(t) <= Len(u) /\ \A i \in 1 .. Len(t) : t[i] = u[i]
  BY PrefixIs
<1>4. Len(s) <= Len(u) /\ \A i \in 1 .. Len(s) : s[i] = u[i]
  BY <1>1, <1>2, <1>3
<1> QED BY <1>4, PrefixIs

(* A prefix of a string that does not begin with a slash does not either.   *)
LEMMA NoSlash ==
    ASSUME NEW k \in Str, ~HasPrefix(k, <<Slash>>), NEW n \in Str, HasPrefix(k, n)
    PROVE  ~HasPrefix(n, <<Slash>>)
<1> SUFFICES ASSUME HasPrefix(n, <<Slash>>) PROVE FALSE
  OBVIOUS
<1>1. <<Slash>> \in Str /\ Len(<<Slash>>) = 1
  BY DEF Slash, Str
<1>2. Len(n) \in Nat /\ Len(k) \in Nat
  BY LenProperties DEF Str
<1>3. 1 <= Len(n) /\ \A i \in 1 .. 1 : <<Slash>>[i] = n[i]
  BY <1>1, PrefixIs
<1>4. Len(n) <= Len(k) /\ \A i \in 1 .. Len(n) : n[i] = k[i]
  BY PrefixIs
<1>5. 1 <= Len(k) /\ \A i \in 1 .. 1 : <<Slash>>[i] = k[i]
  BY <1>2, <1>3, <1>4
<1> QED BY <1>1, <1>5, PrefixIs

(* What an entry's name is to the client: the bucket's prefix and the rest, *)
(* which as a marker stands for the entry again.                            *)
LEMMA EntryNames ==
    ASSUME ObjectTypes, StoredIsOwn, ListingInv,
           NEW e \in Entries(Place[target], ActualPrefix(target), RealMarker(target))
    PROVE  LET n == RemovePrefixFromKey(target, e.name) IN
           /\ n \in Str /\ e.name = GetPrefixForBucket(target) \o n
           /\ HasPrefix(e.name, GetPrefixForBucket(target))
           /\ AddPrefixToKey(target, n) = e.name
<1> DEFINE p == GetPrefixForBucket(target)
           a == ActualPrefix(target)
           n == RemovePrefixFromKey(target, e.name)
<1>1. /\ p \in Str /\ a \in Str /\ a = p \o query.prefix /\ query.prefix \in Str
      /\ HasPrefix(a, p) /\ target \in Virtual
  BY BucketPrefix, QueryAssumption, TrimConcat DEF ActualPrefix, ObjectTypes, Str
<1>2. PICK x \in real[Place[target]] : HasPrefix(x, a) /\ e = Entry(x, a)
  BY DEF Entries
<1>3. x \in Str
  BY <1>1, <1>2, PlaceIsReal DEF ObjectTypes
<1>4. e.name \in Str /\ HasPrefix(e.name, a) /\ HasPrefix(x, e.name)
  BY <1>1, <1>2, <1>3, EntryFacts
<1> HIDE DEF p, a
<1>5. HasPrefix(e.name, p) /\ HasPrefix(x, p)
  BY <1>1, <1>2, <1>3, <1>4, PrefixTransitive
<1>6. n = TrimPrefix(e.name, p)
  BY DEF RemovePrefixFromKey, p
<1> HIDE DEF n
<1>7. n \in Str /\ e.name = p \o n
  BY <1>1, <1>4, <1>5, <1>6, TrimSplits
<1>8. PICK k : k = TrimPrefix(x, p)
  OBVIOUS
<1>9. k \in View(target) /\ k \in Str /\ x = p \o k
  BY <1>1, <1>2, <1>3, <1>5, <1>8, TrimSplits DEF View, Under, p
<1>10. ~HasPrefix(k, <<Slash>>)
  BY <1>9, ViewKey
<1>11. HasPrefix(k, n)
  BY <1>1, <1>4, <1>7, <1>9, SameRest
<1>12. ~HasPrefix(n, <<Slash>>)
  BY <1>7, <1>9, <1>10, <1>11, NoSlash
<1>13. AddPrefixToKey(target, n) = p \o n
  BY <1>12 DEF AddPrefixToKey, p
<1> QED BY <1>5, <1>7, <1>13 DEF p, n

(* A page: a key that was there all along is on it, was on one before, or   *)
(* comes after its marker; and if it is the last page, is not left over.    *)
LEMMA PageShows ==
    ASSUME IInv, ListingInv, ListPage
    PROVE  ListingInv'
<1> DEFINE p == GetPrefixForBucket(target)
           a == ActualPrefix(target)
           es == Entries(Place[target], ActualPrefix(target), RealMarker(target))
           page == PageOf(es)
           names(folder) == {RemovePrefixFromKey(target, e.name) :
               e \in {f \in page : f.folder = folder /\ HasPrefix(f.name, p)}}
<1>1. /\ ClientInv /\ ObjectTypes /\ StoredIsOwn /\ Lister \in Request
      /\ pc[Lister] = "got" /\ target \in Virtual /\ query \in Query
  BY NameAssumption DEF IInv, ObjectInv, ObjectTypes, ListPage
<1>2. Reached(Lister) = Place[target]
  <2>1. bucket[Lister] = target
    BY <1>1 DEF ClientInv, OperationOK
  <2> QED BY <1>1, <2>1, ReachedIsPlace
<1>3. /\ listed' = listed \cup {k \in names(FALSE) : ~Placeholder(k)}
      /\ folders' = folders \cup names(TRUE)
      /\ \/ /\ page # es /\ st' = st
            /\ marker' = RemovePrefixFromKey(target, LastOf(page).name)
         \/ page = es /\ st' = "done"
      /\ UNCHANGED <<real, target, query, kept, existed>>
      /\ pc'[Lister] = "idle"
  <2>1. pc'[Lister] = "idle"
    BY <1>1 DEF ListPage, End, Clients!Finish, ClientInv, ClientTypes
  <2> QED BY <1>2, <2>1 DEF ListPage
<1>4. st = "listing"
  BY <1>1 DEF ListingInv
<1>5. /\ p \in Str /\ a \in Str /\ a = p \o query.prefix /\ query.prefix \in Str
      /\ query.maxKeys \in Nat \ {0}
  BY <1>1, BucketPrefix, QueryAssumption, TrimConcat DEF ActualPrefix, Str
<1>6. /\ IsFiniteSet(es) /\ \A e \in es : e.name \in Str
      /\ \A e, f \in es : e.name = f.name => e = f
  <2>1. Place[target] \in RealPlace /\ real[Place[target]] \subseteq Str
    BY <1>1, PlaceIsReal DEF ObjectTypes
  <2>2. IsFiniteSet(real[Place[target]])
    BY <2>1 DEF ListingInv
  <2> QED BY <1>5, <2>1, <2>2, EntriesFacts
<1>7. page \subseteq es
  BY DEF PageOf
<1>8. \A e \in es : LET n == RemovePrefixFromKey(target, e.name) IN
          /\ n \in Str /\ e.name = p \o n /\ HasPrefix(e.name, p)
          /\ AddPrefixToKey(target, n) = e.name
  BY <1>1, EntryNames
<1> HIDE DEF es, page
(* The entry of a key that was there all along. *)
<1>9. ASSUME NEW k \in kept, HasPrefix(k, query.prefix), ToCome(k)
      PROVE  /\ EntryOf(k) \in es
             /\ EntryOf(k) \in page => Shown(k)'
  <2>1. k \in View(target)
    BY DEF ListingInv
  <2>2. PICK x : x = p \o k
    OBVIOUS
  <2>3. k \in Str /\ x \in real[Place[target]] /\ x \in Str
    BY <1>1, <1>5, <2>1, <2>2, ViewKey, TrimConcat
  <2>4. HasPrefix(x, a)
    BY <1>5, <1>9, <2>2, <2>3, ConcatPrefix
  <2>5. PICK e : e = Entry(x, a)
    OBVIOUS
  <2>6. EntryOf(k) = e
    BY <2>2, <2>5 DEF EntryOf
  <2>7. e \in es
    BY <1>9, <2>3, <2>4, <2>5, <2>6 DEF es, Entries, ToCome
  <2>8. /\ e.name \in Str /\ HasPrefix(x, e.name)
        /\ e.folder \/ e = [folder |-> FALSE, name |-> x]
        /\ \/ e = [folder |-> TRUE, name |-> e.name]
           \/ e = [folder |-> FALSE, name |-> e.name]
    BY <1>5, <2>3, <2>4, <2>5, EntryFacts
  <2>9. ASSUME e \in page PROVE Shown(k)'
    <3> DEFINE n == RemovePrefixFromKey(target, e.name)
    <3>1. n \in Str /\ e.name = p \o n /\ HasPrefix(e.name, p)
      BY <1>8, <2>7
    <3> HIDE DEF n, p
    <3>2. CASE e = [folder |-> FALSE, name |-> x]
      <4>1. e.folder = FALSE /\ e.name = x
        BY <3>2
      <4>2. n = k
        BY <1>5, <2>2, <2>3, <4>1, TrimConcat DEF n, RemovePrefixFromKey, p
      <4>3. k \in names(FALSE)
        BY <2>9, <3>1, <4>1, <4>2 DEF n
      <4>4. k \in listed' \/ Placeholder(k)
        BY <1>3, <4>3
      <4>5. Placeholder(k)' = Placeholder(k)
        BY <1>3 DEF Placeholder
      <4> QED BY <4>4, <4>5 DEF Shown
    <3>3. CASE e.folder
      <4>1. e.folder = TRUE
        BY <2>8, <3>3
      <4>2. n \in names(TRUE)
        BY <2>9, <3>1, <4>1 DEF n
      <4>3. HasPrefix(p \o k, p \o n)
        BY <2>2, <2>8, <3>1
      <4>4. HasPrefix(k, n)
        BY <1>5, <2>3, <3>1, <4>3, SameRest
      <4>5. n \in folders'
        BY <1>3, <4>2
      <4> QED BY <4>4, <4>5 DEF Shown
    <3> QED BY <2>8, <3>2, <3>3
  <2> QED BY <2>6, <2>7, <2>9
<1>10. ASSUME NEW k \in kept, Shown(k) PROVE Shown(k)'
  <2>1. listed \subseteq listed' /\ folders \subseteq folders'
    BY <1>3
  <2>2. Placeholder(k)' = Placeholder(k)
    BY <1>3 DEF Placeholder
  <2> QED BY <1>10, <2>1, <2>2 DEF Shown
<1>11. ASSUME NEW k \in kept, HasPrefix(k, query.prefix)
       PROVE  Shown(k)' \/ (st' = "listing" /\ ToCome(k)')
  <2>1. CASE Shown(k)
    BY <1>10, <2>1
  <2>2. CASE ~Shown(k)
    <3>1. ToCome(k)
      BY <1>4, <1>11, <2>2 DEF ListingInv
    <3>2. PICK e : e = EntryOf(k)
      OBVIOUS
    <3>3. e \in es /\ (e \in page => Shown(k)')
      BY <1>9, <1>11, <3>1, <3>2
    <3>4. ASSUME e \notin page PROVE st' = "listing" /\ ToCome(k)'
      <4>1. /\ st' = "listing"
            /\ marker' = RemovePrefixFromKey(target, LastOf(page).name)
        BY <1>3, <1>4, <3>3, <3>4
      <4>2. PICK f : f = LastOf(page)
        OBVIOUS
      <4>3. f \in page /\ f \in es
        BY <1>5, <1>6, <1>7, <3>3, <4>2, PageHasLast DEF page
      <4>4. Less(f.name, e.name)
        BY <1>5, <1>6, <3>3, <3>4, <4>3, RestComesAfter DEF page
      <4>5. AddPrefixToKey(target, marker') = f.name
        BY <1>8, <4>1, <4>2, <4>3
      <4>6. RealMarker(target)' = <<>> \/ RealMarker(target)' = f.name
        BY <1>3, <4>5 DEF RealMarker, AddPrefixToKey
      <4>7. EntryOf(k)' = e
        BY <1>3, <3>2 DEF EntryOf, ActualPrefix, Entry
      <4> QED BY <4>1, <4>4, <4>6, <4>7 DEF ToCome
    <3> QED BY <3>3, <3>4
  <2> QED BY <2>1, <2>2
<1>12. View(target)' = View(target)
  BY <1>3 DEF View, Under
<1> HIDE DEF p, a, names
<1> QED
  <2>1. /\ \A q \in RealPlace : IsFiniteSet(real'[q])
        /\ \A v \in Virtual : existed'[v] \subseteq Key
        /\ st' \in {"listing", "done"}
        /\ kept' \subseteq View(target)'
    BY <1>3, <1>4, <1>12 DEF ListingInv
  <2>2. \A k \in kept' : HasPrefix(k, query'.prefix) =>
            Shown(k)' \/ (st' = "listing" /\ ToCome(k)')
    BY <1>3, <1>11
  <2> QED BY <1>3, <2>1, <2>2 DEF ListingInv

(* Steps that neither change objects nor show any. *)
LEMMA ListingSame ==
    ASSUME ListingInv, UNCHANGED <<real, existed, target, query, listed, folders, marker, kept>>,
           st' = st \/ st' = "failed", pc'[Lister] # "idle" => st' = "listing"
    PROVE  ListingInv'
<1>1. \A k : Shown(k)' <=> Shown(k)
  BY DEF Shown, Placeholder
<1>2. \A k : ToCome(k)' <=> ToCome(k)
  BY DEF ToCome, EntryOf, Entry, ActualPrefix, RealMarker, AddPrefixToKey
<1>3. View(target)' = View(target)
  BY DEF View, Under
<1> QED BY <1>1, <1>2, <1>3 DEF ListingInv

(* Storing an object takes none away. *)
LEMMA PutKeepsListing ==
    ASSUME IInv, ListingInv, NEW r \in Request, NEW key \in Key, PutObject(r, key)
    PROVE  ListingInv'
<1> DEFINE x == AddPrefixToKey(bucket[r], key)
           q == Reached(r)
<1>1. /\ ClientInv /\ ObjectTypes /\ pc[r] = "got" /\ r # Lister
      /\ real' = [real EXCEPT ![q] = @ \cup {x}]
      /\ existed' = [v \in Virtual |-> existed[v] \cup About(r, key, v)] /\ End(r)
      /\ UNCHANGED <<st, target, query, marker, listed, folders, kept>>
      /\ Lister \in Request /\ target \in Virtual
  BY NameAssumption DEF IInv, ObjectInv, ObjectTypes, PutObject, client
<1>2. q \in RealPlace
  BY <1>1, ReachedIsReal
<1>3. pc'[Lister] = pc[Lister]
  BY <1>1 DEF End, Clients!Finish, ClientInv, ClientTypes
<1>4. \A v \in Virtual : View(v) \subseteq View(v)'
  <2>1. \A v \in Virtual : View(v)' = View(v) \cup About(r, key, v)
    BY <1>1, ChangesWhatItIsAbout
  <2> QED BY <2>1
<1> HIDE DEF x, q
<1>5. \A p \in RealPlace : IsFiniteSet(real'[p])
  <2>1. \A p \in RealPlace : real'[p] = IF p = q THEN real[p] \cup {x} ELSE real[p]
    BY <1>1, <1>2 DEF ObjectTypes
  <2> TAKE p \in RealPlace
  <2>2. IsFiniteSet(real[p])
    BY DEF ListingInv
  <2>3. PICK S : S = real[p]
    OBVIOUS
  <2>4. IsFiniteSet(S \cup {x})
    BY <2>2, <2>3, FS_AddElement
  <2> QED BY <2>1, <2>2, <2>3, <2>4
<1>6. \A v \in Virtual : existed'[v] \subseteq Key
  <2>1. \A v \in Virtual : About(r, key, v) \subseteq Key
    BY <1>1, AboutFacts
  <2> QED BY <1>1, <2>1 DEF ListingInv
<1>7. \A k : Shown(k)' <=> Shown(k)
  BY <1>1 DEF Shown, Placeholder
<1>8. \A k : ToCome(k)' <=> ToCome(k)
  BY <1>1 DEF ToCome, EntryOf, Entry, ActualPrefix, RealMarker, AddPrefixToKey
<1>9. View(target) \subseteq View(target)'
  BY <1>1, <1>4 DEF View, Under
<1> QED BY <1>1, <1>3, <1>5, <1>6, <1>7, <1>8, <1>9 DEF ListingInv

(* A delete takes what it is about away from the keys that were there all   *)
(* along, and no other.                                                     *)
LEMMA DeleteKeepsListing ==
    ASSUME IInv, ListingInv, NEW r \in Request, NEW key \in Key, DeleteObject(r, key)
    PROVE  ListingInv'
<1> DEFINE x == AddPrefixToKey(bucket[r], key)
           q == Reached(r)
<1>1. /\ ClientInv /\ ObjectTypes /\ pc[r] = "got" /\ r # Lister
      /\ real' = [real EXCEPT ![q] = @ \ {x}]
      /\ kept' = kept \ About(r, key, target)
      /\ UNCHANGED <<st, existed, target, query, marker, listed, folders>> /\ End(r)
      /\ Lister \in Request /\ target \in Virtual
  BY NameAssumption DEF IInv, ObjectInv, ObjectTypes, DeleteObject, client
<1>2. q \in RealPlace
  BY <1>1, ReachedIsReal
<1>3. pc'[Lister] = pc[Lister]
  BY <1>1 DEF End, Clients!Finish, ClientInv, ClientTypes
<1>4. \A v \in Virtual : View(v)' = View(v) \ About(r, key, v)
  BY <1>1, ChangesWhatItIsAbout
<1> HIDE DEF x, q
<1>5. \A p \in RealPlace : IsFiniteSet(real'[p])
  <2>1. \A p \in RealPlace : real'[p] = IF p = q THEN real[p] \ {x} ELSE real[p]
    BY <1>1, <1>2 DEF ObjectTypes
  <2> TAKE p \in RealPlace
  <2>2. IsFiniteSet(real[p])
    BY DEF ListingInv
  <2>3. PICK S : S = real[p]
    OBVIOUS
  <2>4. IsFiniteSet(S \ {x})
    BY <2>2, <2>3, FS_RemoveElement
  <2> QED BY <2>1, <2>2, <2>3, <2>4
<1>6. \A v \in Virtual : existed'[v] \subseteq Key
  BY <1>1 DEF ListingInv
<1>7. \A k : Shown(k)' <=> Shown(k)
  BY <1>1 DEF Shown, Placeholder
<1>8. \A k : ToCome(k)' <=> ToCome(k)
  BY <1>1 DEF ToCome, EntryOf, Entry, ActualPrefix, RealMarker, AddPrefixToKey
<1>9. kept' \subseteq View(target)'
  <2>1. View(target)' = View(target) \ About(r, key, target)
    BY <1>1, <1>4 DEF View, Under
  <2> QED BY <1>1, <2>1 DEF ListingInv
<1>10. kept' \subseteq kept
  BY <1>1
<1> QED BY <1>1, <1>3, <1>5, <1>6, <1>7, <1>8, <1>9, <1>10 DEF ListingInv

(* A listing begins before all keys. *)
LEMMA StartsBeforeAll ==
    ASSUME IInv, ListingInv, StartListing
    PROVE  ListingInv'
<1>1. /\ st = "idle" /\ st' = "listing"
      /\ kept' = {k \in Key : AddPrefixToKey(target, k) \in real[Place[target]]}
      /\ UNCHANGED <<pc, real, target, query, marker, existed>>
  BY DEF StartListing, operations
<1>2. RealMarker(target)' = <<>>
  BY <1>1 DEF ListingInv, RealMarker
<1>3. \A k : ToCome(k)'
  BY <1>2 DEF ToCome
<1>4. kept' \subseteq View(target)'
  <2>1. ASSUME NEW k \in Key, AddPrefixToKey(target, k) \in real[Place[target]]
        PROVE  k \in View(target)
    BY <2>1, RealKey DEF View, Under
  <2>2. View(target)' = View(target)
    BY <1>1 DEF View, Under
  <2> QED BY <1>1, <2>1, <2>2
<1> QED BY <1>1, <1>3, <1>4 DEF ListingInv

(* At first nothing is stored, and nothing is listed. *)
LEMMA InitListing == Init => ListingInv
<1> SUFFICES ASSUME Init PROVE ListingInv
  OBVIOUS
<1>1. \A p \in RealPlace : IsFiniteSet(real[p])
  BY FS_EmptySet DEF Init, RealPlace
<1> QED BY <1>1, NameAssumption DEF Init, ListingInv, Clients!Init

(* Every step keeps it. *)
LEMMA NextListing == IInv /\ ListingInv /\ [Next]_vars => ListingInv'
<1> SUFFICES ASSUME IInv, ListingInv, [Next]_vars PROVE ListingInv'
  OBVIOUS
<1>1. /\ DOMAIN pc = Request /\ Lister \in Request
  BY NameAssumption DEF IInv, ClientInv, ClientTypes
<1>2. ASSUME NEW r \in Request, NEW v, r = Lister => st = "listing", Begin(r, v) PROVE ListingInv'
  <2>1. UNCHANGED <<real, existed, target, query, listed, folders, marker, kept, st>>
    BY <1>2 DEF Begin, client
  <2>2. r # Lister => pc'[Lister] = pc[Lister]
    BY <1>1, <1>2 DEF Begin, Clients!GetClientForBucket, Clients!UseConfig, Clients!Take
  <2> QED BY <1>2, <2>1, <2>2, ListingSame DEF ListingInv
<1>3. ASSUME NEW r \in Request, FindClient(r) PROVE ListingInv'
  <2>1. UNCHANGED <<real, existed, target, query, listed, folders, marker, kept, st>>
    BY <1>3 DEF FindClient, client
  <2>2. r # Lister => pc'[Lister] = pc[Lister]
    BY <1>1, <1>3 DEF FindClient, Clients!Lookup, Clients!CreateClient, Clients!CreateFails,
                      Clients!Take
  <2>3. pc[r] # "idle"
    BY <1>3 DEF FindClient, Clients!Lookup, Clients!CreateClient, Clients!CreateFails
  <2> QED BY <2>1, <2>2, <2>3, ListingSame DEF ListingInv
<1>4. ASSUME NEW r \in Request, EndWithoutEffect(r) PROVE ListingInv'
  <2>1. UNCHANGED <<real, existed, target, query, listed, folders, marker, kept, st>>
    BY <1>4 DEF EndWithoutEffect, client
  <2>2. pc'[Lister] = pc[Lister]
    BY <1>1, <1>4 DEF EndWithoutEffect, End, Clients!Finish
  <2> QED BY <2>1, <2>2, ListingSame DEF ListingInv
<1>5. ASSUME GiveUp PROVE ListingInv'
  <2>1. /\ UNCHANGED <<real, existed, target, query, listed, folders, marker, kept>>
        /\ st' = "failed" /\ pc'[Lister] = "idle"
    BY <1>1, <1>5 DEF GiveUp, End, Clients!Finish
  <2> QED BY <2>1, ListingSame
<1>6. CASE List
  BY <1>1, <1>2, <1>3, <1>5, <1>6, PageShows, StartsBeforeAll DEF List, AskForPage
<1>7. ASSUME NEW r \in Request \ {Lister}, Operate(r) PROVE ListingInv'
  BY <1>2, <1>3, <1>4, <1>7, PutKeepsListing, DeleteKeepsListing DEF Operate
<1>8. CASE UNCHANGED vars
  <2>1. UNCHANGED <<pc, real, existed, target, query, listed, folders, marker, kept, st>>
    BY <1>8 DEF vars, client, operations
  <2> QED BY <2>1, ListingSame DEF ListingInv
<1> QED BY <1>6, <1>7, <1>8 DEF Next

(* However many pages a listing takes and whatever is stored and deleted    *)
(* meanwhile, in this bucket and in others of the same real bucket: a key   *)
(* with the prefix asked for that was there all along is shown, by itself   *)
(* or under a common prefix, before ListObjectsWithDelimiter says that      *)
(* there is no more.                                                        *)
THEOREM ListingsLoseNothing == Spec => []NothingLost
<1>1. ListingInv => NothingLost
  BY DEF ListingInv, NothingLost, Shown
<1>2. Spec => []ListingInv
  BY InitListing, NextListing, Invariance, PTL DEF Spec
<1> QED BY <1>1, <1>2, PTL

=============================================================================
