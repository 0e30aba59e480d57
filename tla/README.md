# TLA+ models of s3proxy-go

Models, model-checking runs and proofs for the parts of s3proxy-go that carry
its own logic: caching, storage backends, streaming, encryption and
request handling. `PROJECT.json` lists components, runs, the source
lines every definition stands for, findings, hazards and theorems.

## The system

`cmd/s3proxy/main.go` starts `proxy.NewServer`, which builds one storage
backend (`storage.NewBackend`: azure, s3 or filesystem), wraps it in
`cache.CachingBackend` if `ENABLE_OBJECT_CACHE=true`, and gives it to
`pkg/s3.Handler`. Every HTTP request runs in a goroutine of its own and calls
the backend; there is no lock around a request, so all of them interleave.
`EncryptedBackend`, `StreamReader`, `ParallelWriter`, the KMS envelope, the two
limiters and `HandlerWithKMS` are complete components that `NewServer` does not
install; they are modelled as what they offer to a caller.

| Component | State | Operations | Hard | What makes it correct |
|---|---|---|---|---|
| `internal/cache` | two 2Q caches | cached GET/HEAD, PUT, DELETE, bucket delete, expiry, eviction | fills racing invalidations, writes that fail late | no answer older than an acknowledged write without a known cause |
| `storage/filesystem.go` objects | files, sidecars, upload directories | put, get, head, delete, multipart, list of parts | system calls interleave, crashes, retries | what was acknowledged stays; undisturbed reads are exact |
| `storage/filesystem.go` listing | the directory tree, page markers | list, page by page | the order of the walk, changes meanwhile | nothing lost, nothing twice, an end |
| `storage/s3.go` objects | metadata cache, service uploads | head, get, put, streamed put, delete, complete | fills, aliases, part boundaries, failing parts | as for the cache; whole bodies; no forgotten uploads |
| `storage/s3.go` virtual buckets | real buckets of each endpoint | names, prefixes, listing | prefixes of prefixes, markers through two translations, clients found meanwhile | buckets are isolated; listings are complete |
| `storage/s3.go` clients | map of clients | lookup, creation | double-checked creation, sharing | one client per key, right endpoint and region |
| `storage/s3.go` chunk decoder | buffered bytes | Read | how the transport cuts the body | the payload, without its framing |
| `storage/stream.go` writer | queues, workers, pool | Write, worker, Close | bounded channels, dropped errors | no error swallowed, no byte missing, termination |
| `storage/stream.go` reader | channel of chunks | prefetch, Read, Close | order, blocked goroutine | the source's bytes in order, EOF at the end, termination |
| `storage/azure.go` | blobs, staged blocks, readers' buffers | put, get, head, delete, listing, multipart | several calls per request, blocks shared by uploads, reads of varying size | what was acknowledged stays; parts stay; whole bodies |
| `storage/encrypted.go` | table of uploads | put, get, head, delete, multipart | read-back after completion, restart | reads are transparent, no plaintext left |
| `internal/kms` data keys | cache of keys, shared bytes | generate, seal, open, expire, close | who wipes bytes that others share | keys are usable while handed out and wiped in the end |
| `pkg/s3/handler.go` objects | pooled buffers | GET, ranges, HEAD, PUT, DELETE | HEAD then GET, shared buffers, edges of ranges | exact ranges, each PUT stores its own body |
| limiters, DNS cache, auth, metrics, config, server, other key providers | | | | not modelled, see below |

## Modules

An action is one critical section, system call, channel operation or call of a
service: what happens between two of them interleaves. A comment at each
definition names its code, and `PROJECT.json` "map" its lines. Definitions
named as mutants are variants of the next definition with a bug put in; no
specification uses them. They show that each property notices a plausible bug.

- **ObjectCache** (`internal/cache/cache.go`). `store` is the backend, `hot` and
  `meta` the caches, `pc`/`req` the requests. An object is the number of the
  write that made it and its size class. History: `acked`, `floor`, `tainted`.
- **FileSystemBackend**: paths, inodes, sidecars, upload directories; `promise`
  is what the last acknowledged request left. Each system call is a step: a
  completion opens a part, copies it block by block and closes it, then removes
  the upload's directory file by file, which may fail half-way; a `.meta` file is
  truncated and then written. A crash may come between any two
  calls. `ListParts` is an operator on the state, as one `ReadDir` answers it.
- **FileSystemListing**: `files` and `dirPaths`; `todo` is what `filepath.Walk` has
  read and not visited; `marker`, `page`, `listed`, `folders` are the client's.
  Keys are sequences of byte ranks (**KeyStrings**), as their order matters: that
  of the walk (by names, directory by directory) is not that of the marker (by
  bytes). History: `repeated` keys, the keys the client went on from (`ends`), and
  whether it had to stop at a truncated page (`stuck`).
- **S3Backend**: `store` and `uploads` are the service, `cache` the metadata
  cache by virtual name; the streamed PUT part by part. An upload is the number of
  its parts and of its bytes. A body may break off, with an error or, like a cut
  HTTP body, with `io.ErrUnexpectedEOF` (`cut`).
- **VirtualBuckets**: `real` are the service's buckets at each endpoint; names,
  prefixes and markers are translated as in the code. Every operation, pages of
  the listing included, begins with `S3Clients` and works on the endpoint of the
  client it got. An operation may name any bucket, also a real one, where it
  reaches what lies under the prefixes of the virtual ones (`About`).
  **Buckets** is its abstract specification: sets of keys, of which a request
  under a virtual name changes only that one, and a request under another name
  at most one of those behind it.
- **S3Clients**: the map of clients and the requests that look a client up or
  create it; a client is what it was built from and a serial number. Its actions
  are steps of `VirtualBuckets`.
- **AzureBackend** (`storage/azure.go`): `blob`, `committed`, `staged` and `stray`
  are the service, a request is a sequence of its calls. The key `k` and the
  directory marker `k/`, kept as the blob `k/.dir`, are modelled together, since
  a PUT of the marker deletes the file. `promise` is as for the filesystem;
  `own`, `crossed` and `cut` are which parts each upload was acknowledged and
  which others have touched. An upload is completed with a list of parts in the
  client's order (`PartLists`), and also when it is done or aborted, as the code
  ignores the upload id. Sizes are classes: `small` (one call), `medium` (streamed,
  under 1 MB), `large`, and the small and the streamed ones with encryption
  metadata; `Answer` has the size of the properties beside the body of the
  download. Any call may fail. `HeadObject`, `ListObjects` and `ListedParts` are
  operators on the state.
- **AzureReaders**: the three buffering readers between a connection and whoever
  reads the body, as a calculation for each reader, consumer, size announced,
  length and size of what the connection delivers.
- **ParallelWriter**, **StreamReader** (`storage/stream.go`).
- **EncryptedBackend**: an object is what was sent and how many layers of
  encryption it has; `table` is the in-memory table of uploads. A Complete looks
  the table up, assembles, reads back and replaces; an Abort deletes the entry and
  then calls the backend, which may fail. `lost` are open uploads whose entry is
  gone for a known reason; only those, a disabled manager, or a Complete that
  stopped half-way excuse plaintext.
- **DataKeys**: `mem` is the state of each key's bytes, which the cache and all
  users share; `cache`, `sealed`; `copies` are the decrypted copies not zeroed
  yet. `kind` is who uses the cache: an envelope, which zeroes what it used, a
  provider's user, who does not, or one of the custom provider, which cannot open
  its own blobs. History: `torn`, `leaked`.
- **ObjectRequests** (`pkg/s3/handler.go`): `store`, `pool` and `contents` of the
  small buffers, and per client the request, what HEAD said and the answer.
  Byte *i* of version *v* is `<<v, i>>`, so an answer shows where its bytes are
  from. Backend calls are atomic here. A body comes from a file, a stream, or a
  stream through the decoder of **ChunkedBodies**.
- **ChunkedBodies** (`chunkedDecodingReader`, `storage/s3.go`): a body is a number
  of pieces, of which some have a chunk signature, some a line break and some are
  an end marker, anywhere. A header is looked for in every read until one was
  dropped. `Cuts` are the ways reads of the connection may divide the body.

`*Proofs` modules have the theorems (see Proofs): `StreamProofs` about
`ParallelWriter`, `StreamReader` and `ObjectRequests`, `FileSystemBackendProofs` about
`FileSystemBackend` and `FileSystemListing`, the others about their namesakes.
Where one proof module has several models, these name their variables and
specifications apart (`ReaderSpec`, `RequestsSpec`, `ListingSpec`).
`MC*` modules give values to constants; the `.cfg` files choose them.

## Runs

Passing:

| Run | Instance | Shows |
|---|---|---|
| `ObjectCache_race` | two requests, two keys of one bucket, three writes, a hot cache of one entry | a stale answer or entry always has one of the causes `tainted` stands for, or an invalidation is still to come |
| `FileSystem_multipart` | one key, one upload of the parts 2 and 10, two requests, crashes and failing calls | what was acknowledged is kept, body and metadata, unless a part was written while it was copied; undisturbed reads are exact; a complete list of parts is complete |
| `FileSystemListing_pages` | the keys `a`, `a.meta`, `d/a` and `d.a/a`, an upload in progress, six changes at any time; pages of one and two keys, of one entry with a delimiter, and of a folder | causes of lost and repeated keys; an end |
| `S3Backend_objects` | two names of one object, two requests, a client's multipart upload, bodies of 0 to 3 with parts of 2 that may break off | causes of stale answers; whole bodies unless cut; uploads accounted for |
| `VirtualBuckets_isolation` | two buckets in one real one under `3` and `34/`, a third under `3` in a bucket of that name at another endpoint; a listing and three changes by others, also under the real bucket's name and an unknown one | isolation (refines `Buckets`), listings of what is the bucket's, complete, an end; one client per key, which reaches the right endpoint and region |
| `Azure_blobs` | a key and its marker, two requests, two uploads of two parts completed as `<<1>>` or `<<2, 1>>`, three bodies or parts sent, medium, large and small with encryption metadata; failing calls | what was acknowledged is kept, parts too; undisturbed reads are of one version and exact, or fail for a cause; bodies through the readers; lists of parts |
| `ParallelWriter_writes` | two callers, two workers, up to five writes of one or two bytes | no error swallowed, nothing missing, ranges disjoint; Write and Close return |
| `StreamReader_reads` | seven bytes in chunks of two, a channel of two, reads of 1, 2 and 4, a source that may fail or break off | order, no byte twice, the end or where the source broke off; Read and Close return |
| `Encrypted_races` | one key, two uploads, three requests, failures and restarts | transparent unless overtaken; causes of plaintext |
| `DataKeys_keys` | two users of each of the three kinds, two keys, one cache slot | owners of plaintext keys and of decrypted copies, causes of unreadable objects, all wiped in the end that the code wipes |
| `ObjectRequests_ranges` | two clients, bodies of 0 to 4 pieces around a buffer of 1 and a limit of 2, with none, one or two chunk headers at the start or later, with and without marker, cut in every way, nine range headers | each PUT stores its own body, ranges are exact, bytes are in place, decoding drops framing only |

Violation: `DataKeys_reuse`. `EnvelopeEncryptor.Encrypt` zeroes the data key
when it returns, and the cache still holds that key and hands it out, although
`docs/KMS_ENCRYPTION.md` says that data keys are cached for five minutes. The
trace has the envelope generate the key; one that a caller of
`Manager.GenerateDataKey` has had cached before ends the same way.

Where the code does not give the whole of a promise, the property states the
promise except for the causes that are named in it (`StaleHasCause`,
`TransparentUnlessRaced`, `PlaintextHasCause`, `UnreadableHasCause`,
`DeliveredInOrder`, `EOFIsTheEnd`, `WholeBodyIsStored`, `NothingLost`, `ListedOnce`,
`RangeIsExact`, `BodyIsExact`, `PartsAreKept`, `UndisturbedReadsAreExact`), so that a
further cause would be found.
The named causes are these.

- Object cache: a GET fills the cache with what it read before a PUT that has
  already invalidated it (`cache.go:258`; line 290 says "PutObject stores an
  object and invalidates cache"). `metaCache` has no expiry (`cache.go:122`),
  whatever `CACHE_TTL` is. Multipart completions do not invalidate
  (`cache.go:212`).
- Filesystem: a PUT without metadata leaves the `.meta` file of the object
  before (`filesystem.go:264`), so the properties compare metadata only where
  some was sent. A part that is uploaded again while a completion copies it is
  torn in the object, whose completion is acknowledged (`filesystem.go:408`): the
  completion is then not `alone`. Listings walk by names and filter by bytes
  (`filesystem.go:129`): of `photos/a` and `photos-2020/a` the walk comes to the
  first one first, but its key is the greater one, so a page that ends between them
  loses the second, and a later one may repeat the first (`OutOfOrder`). A key
  that ends in `.meta` is never listed, and part files of open uploads are listed
  as objects (`filesystem.go:166`); a page full of common prefixes has no
  NextMarker and no key to go on from (`filesystem.go:199`, `stuck`). `ListParts`
  goes by names, takes every full page for truncated and returns no
  NextPartNumberMarker (`filesystem.go:469`): a client that goes on from the last
  number it saw misses part 2 after part 10, so `PartsAreListed` speaks of
  answers that are not truncated.
- Data keys: a Put or a cleanup zeroes a key that another encryption is about
  to use (`kms/cache.go:84`). `SimpleAESGCMEncryptor.Decrypt` never zeroes the
  copy of the key that its provider decrypts (`simple_aes_gcm.go:131`), so the
  properties about copies speak of envelopes. The custom provider seals data keys
  with the key's id as associated data and opens them without
  (`provider_custom.go:128`, `168`), so it can read none of them.
- Encrypted backend: of two completions for a key the second may read back, and
  encrypt again, what the first has stored (`encrypted.go:281`). A completion
  leaves plaintext if it fails or is stopped between assembling and replacing
  (`encrypted.go:274`), or if its upload is not in the table any more
  (`encrypted.go:265`): after a restart, or after an Abort that has deleted the
  entry and whose backend call is still to come or has failed (`encrypted.go:340`).
- Streams: buffers are put into the pool as pointers and taken out as slices,
  so a reused buffer panics (`stream.go:209`, `228`), which the models have as
  an outcome (`panicked`, `crashed`); the rest of a chunk is queued behind later
  chunks or dropped (`stream.go:134`). A source that breaks off with
  `io.ErrUnexpectedEOF` counts as ended (`stream.go:63`).
- S3 backend: clients are shared by region and endpoint also between buckets
  with different credentials (`s3.go:261`), so no property speaks of
  credentials; the metadata cache is keyed by virtual name. A streamed PUT whose
  body breaks off with `io.ErrUnexpectedEOF` is completed with what came
  (`s3.go:1081`, `1119`), whatever size was announced.
- Virtual buckets: nothing refuses the name of a real bucket (`s3.go:683`), so a
  request under it changes what the virtual buckets in it list.
- Object requests: a suffix longer than the object gives a negative start
  (`handler.go:461`), excluded by `WithinObject`; headers come from a HEAD and
  bytes from a later GET (`handler.go:474`), which `BytesInPlace` allows.
- Chunked bodies: any body with a read that ends in `0\r\n\r\n` is cut off there
  (`s3.go:72`), also in the middle of an object; a header that a read cuts is
  passed on (`s3.go:64`), and then what looks like a header at the start of a later
  read is dropped, with what comes before its line break, from the middle of the
  body; headers after the first one dropped are passed on; what a range's
  copy has not taken when the marker is found is dropped (`s3.go:43` comes before
  line 48). `OnlyFramingIsDropped` allows these for whole objects: one line with a
  signature is missing at most, and what follows a marker; the
  range properties leave out bodies that look like chunks.
- Azure backend:
  - blocks are named by the part number alone (`azure.go:894`), and abort does
    nothing, so uploads of one key share blocks, and every write of the blob
    discards them: `crossed` and `cut`;
  - a marker PUT goes on if looking for the file or deleting it fails
    (`azure.go:592`, `596`);
  - a body of 1 MB or more is downloaded under the key as it was asked for, which
    for a marker is not the blob's name (`azure.go:292`): its GET fails;
  - the calls that list do not ask for metadata (`azure.go:159`), so the test for
    the marker's own (`azure.go:192`, `240`) never holds and a marker shows as
    `k/.dir` where it is not rolled up;
  - a streamed marker has the MD5 of an empty body as its ETag (`azure.go:609`);
  - the size a GET answers comes from the properties, the body from a later call
    (`azure.go:318`, `348`), so of a longer body put meanwhile the cache reads a
    part (`cache.go:244`);
  - completing ignores the upload id (`azure.go:903`), so a done or aborted upload
    can be completed again;
  - `io.ReadAll`, which `EncryptedBackend` uses (`encrypted.go:288`), reads in
    growing steps: `azureHighPerfReader` then replaces a buffer that still holds
    bytes and hands out zeroes or panics (`azure.go:372`, `377`, `392`), and a
    large Read passes bytes in the buffer by (`azure.go:366`, `408`). Consumers
    with reads of one size, or that never grow, are exact (`BodyIsExact`);
  - `ListParts` numbers blocks by their place (`azure.go:945`), so numbers with
    gaps come back without;
  - small PUTs put a pointer into a pool that they take slices from
    (`azure.go:627`, `633`), and a reused one panics: an outcome of `PutFails`;
  - an upload's metadata is dropped (`azure.go:912`), and multipart operations do
    not normalise keys that end in a slash (`azure.go:887`).
- Seen while reading, in parts without a model: a rate limiter that is held while
  the cleanup removes it is used beside its successor (`ratelimit.go:65`). The
  flat listing of the Azure backend gives the service's ETag where the one with a
  delimiter gives the stored MD5 (`azure.go:255`, `206`).

### Bounds

Races here are between two requests, or a request and a background task, over
one key, upload, client or buffer. Two requests show them; a third is there
where two may collide and another sees the result (`Encrypted_races`). Two keys are needed only where one evicts another or a
bucket is dropped (the cache). Two writes make an answer stale and three give an
overwritten overwrite. Sizes lie on both sides of each limit and at it.
`MaxVer`, `MaxOffset`, `MaxWrites`, `MaxPuts`, `MaxSent` and `MaxDepth` cap counters
in guards of actions; `MaxParts` bounds the pages asked for. Three things sent to
Azure are a part, its double from another upload and a PUT. Of the five classes of
sizes the run sends three, which between them take both ways of writing and all
three readers; the sizes of readers,
buffers and reads keep the order of the code's, so every pair of a Read and a
buffer that the code tells apart occurs. Parts of one block are enough for a torn
copy: a part is truncated before it is written again, and the copy then finds none.
Bodies of 0 to 3 with parts of 2 end before, at and after a part, and break off at
each place. The four keys of the listing, with six changes, meet each cause of
`NothingLost` and `ListedOnce`: without any one of them the run fails. The keys
of the virtual buckets have one that is a key of another bucket under the real
bucket's name. Deadlock is checked except in the two listing runs, where the
client is done with its listing at last. Symmetry is used for interchangeable
requests, uploads, data and buffers, only in runs without temporal properties.
The longest runs are those of the filesystem, of Azure, of object requests and of
virtual buckets, at one to three minutes each (up to 3.4 million states).
`FileSystem_multipart` compares states by a VIEW: what is in each file and each open
file, which open files are still those of their paths and which are shared, but not
which inode is which, nor what a request has seen that no property and no
later step asks about.

### Fairness

Weak fairness only, and only of what goes on by itself: a goroutine that can
take a step takes it (workers, callers, the prefetcher, requests under way), a
Close that may return does, tickers fire (expiry and cleanup of data keys), a
listing client asks for the next page. Nothing makes a client call Write, Read,
Close or PUT, and no failure is required or forbidden.

## Proofs

TLAPS checks these for every value of the constants that satisfies the
assumptions named in the modules. For each model there is an inductive invariant
(`IInv`, `ReaderIInv`, `RequestsIInv`, `ListingIInv`), a lemma for each action that
keeps it, a theorem that it holds (`Invariance` and the like, `Spec => []IInv`), and
the properties as consequences. All properties that a theorem states are also
invariants or properties of a run, and all invariants of the passing runs are
theorems.

- `ObjectCacheProofs`: `TypeCorrect`, `NoUnexplainedStaleRead`,
  `WrongEntriesAreExplained`. `ReadsSeeAcknowledgedWrites` speaks of answers; to
  be inductive it needs to know what is in the caches. `HotFloor` and
  `MetaFloor` say that once a writer has cleaned a cache of a key, each
  untainted entry there is at least as new as its write; the acknowledgement
  comes later, so an untainted entry is never older than what is acknowledged.
  `RequestOK` says the same of objects that are on their way from the backend
  into a cache, and `Versions` orders the numbers.
- `S3BackendProofs`: `TypeCorrect`, `NoUnexplainedStaleRead`,
  `WrongEntriesAreExplained`, `NoBodyIsCut`, `NoUploadIsForgotten`. The argument
  for the metadata cache is that of the object cache, per name instead of per
  key (`CacheFloor`, with `WroteOther` for the writer of another name). `StreamOK`
  says that a stream's upload exists while it runs, never holds more than the body
  and holds all of it when it is completed, unless the body was cut, and
  `OwnUploads` that no two requests share an upload.
- `FileSystemBackendProofs`: `AcknowledgedStays`, `ReadsAreExact`,
  `EveryPartIsListed`, `FileListingsLoseNothing`, `FileListingsShowKeysOnce`. `HistoryInv`
  says that a request that believes to be alone on a path is, and that nothing
  is promised of a path somebody works on. `InodeInv` says that two paths never
  share an inode, and that a descriptor is of the path it was opened under or of
  a file that was removed (`PartsOwn` for the part a completion has open): so no
  writer reaches the file of another path.
  `WriterOK` is what a writer that is alone has done so far (created, copied,
  assembled up to some block), `CopierOK` that the part it has open still holds
  what it is to copy, `ReaderOK` the same for a reader. `EveryPartIsListed`
  is by induction over the names in a directory: `ListsFirst` says what the first
  names have put on the list. For listings, `Before` and `Less` are shown to be
  transitive as two cases of one order (`Lex`). `PageOK` says that a page is in the
  order of the walk and comes before all that the walk has still to visit; `MarkerOK`
  that what earlier pages listed is up to the marker, unless the walk met it before
  a smaller key that a page ended with (`Again`); and `Covered` that an object that was
  there all along has been shown, or is excused by such an order or its name, or is
  beyond the marker and below some path still to be visited, or follows a full page.
  `TreeOK` (the directories of an object are there as long as the object is) makes
  the walk go on towards it, and `CountOK` says that without a delimiter a full page
  is full of keys, so that there is one to go on from.
- `AzureBackendProofs`: `AcknowledgedStays`, `PartsStay`, `ReadsAreExact`,
  `BodiesAreExact`, `EveryPartIsListed`. The histories are as for the filesystem.
  `BlocksOK` says that what a commit would use for a part nobody else has staged is that part or
  nothing, which survives commits and deletes that keep some blocks. `Exact` is
  the theorem about `AzureReaders` on which `CommitStream` and `BodiesAreExact` rest:
  for every length of a body and every size of what the connection delivers, all
  bytes arrive, once and in order, or as many as were announced for the cache.
  `ReaderInv` follows the buffer: the bytes
  handed out, the bytes buffered and the bytes still to come are in this order
  the whole body, and while bytes are buffered the buffer is the one that the
  next Read will ask for, or the consumer has all it asked for; this is what fails
  for `io.ReadAll` through a buffer. `ReaderOK` has the causes for which an undisturbed
  GET may fail. `EveryPartIsListed`
  is by induction over the pages: the i-th marker is at least i or the last number.
- `EncryptedBackendProofs`: `EncryptionIsTransparent`, `PlaintextIsExplained`.
  `CompleteOK` says that what a Complete reads back, and what it then encrypts, is
  in the clear unless another write has overtaken it. `UploadInv` says that an open
  upload that is not in the table is `lost`, that a Complete that did not find its
  upload there has a lost one or a disabled manager, and that an upload is closed
  once its object is assembled: so only known reasons lead to plaintext.
- `DataKeysProofs`: `NoPlaintextIsLost`, `UnreadableIsExplained`,
  `KeysKeepTheirBytes`. A new key is held by one user only (`NewKeyIsPrivate`), a
  key is cached in one slot at most (`CachedOnce`), a user's key is cached or
  zeroed (`UsedIsCached`), and what can be reached and is zeroed is `torn`
  (`ReachableKeys`); `CopiesInv` says that under an envelope a copy belongs to a
  decryption that is still at work. `KeysKeepTheirBytes` is `KeysAreCached` where the users do
  not zero keys: what `DataKeys_reuse` shows is due to the envelope alone.
- `VirtualBucketsProofs`: `OneClientForAll`, `ListingsShowTheirOwn`,
  `ListingsLoseNothing`, and `BucketsAreIsolated`, the refinement of `Buckets`: every
  step of the backend is a step of one bucket or of none, that bucket being the one
  the request names or, under a real bucket's name, one behind it. The lemmas about prefixes (adding one and
  trimming it again, two prefixes of one key nest) come first. `OperationOK` says
  that an operation's client is of the endpoint of its bucket, `StoredIsOwn` that
  what lies under a bucket's prefix was stored there by requests about it, and
  `ListingInv` that a key that was there all along has been shown or sorts after the
  marker in the real bucket's order, where adding a prefix keeps the order.
- `StreamProofs`, `ParallelWriter`: `TypeCorrect`, `NoErrorIsSwallowed`,
  `RangesNeverOverlap`, `NoByteIsMissing`. `errChan` drops errors when full;
  `ErrorIsKept` says that one remains, `Quiet` that a closing writer has nothing
  under way, `Conserved` and `Below` follow every byte from its reservation to
  `writeFunc`.
- `StreamProofs`, `StreamReader`: `BytesComeInOrder`, `EndOfFileIsTheEnd`. `OnePlace`
  says that each byte taken from the source is in one place at most: delivered, in a
  chunk of the channel, in the goroutine's chunk or in a remainder; `Contiguous` that
  until a Read ends inside a chunk these follow on each other; `AtEnd` why the
  goroutine has ended: at the end of the source, where it broke off, with an error
  or for Close.
- `StreamProofs`, `ObjectRequests`: `PutsAndGetsAreWhole`, `FramingOnlyIsDropped`,
  `RangesAreExact`, `RangeBytesInPlace`. What the decoding reader has handed out after
  i Reads is `Decoding` for a whole body (all that was taken, with at most one gap,
  `WithGap`, that is a line with a signature) and `Ranging` for a range of a plain one; both
  are kept by a Read, and induction over the Reads takes them to the end of a copy.
  `RequestsIInv` adds that a pooled buffer has one owner and holds its owner's bytes
  (`BuffersOwned`, `BuffersFilled`) and that a range request not marked as changed
  still has the object its HEAD saw (`ChangesNoted`).

The assumptions: the values that stand for nothing are no values of the types
they stand beside (`NoneAssumption`); virtual buckets on one real bucket have
prefixes that do not nest (`SeparateAssumption`, the case the documentation
describes), no key begins with a slash (`KeyAssumption`: the router redirects
such paths), a bucket without a configuration is not the real bucket of one
that has (`UnconfiguredAssumption`), and what is stored under another name in a
virtual bucket's part has a key there (`OtherNameAssumption`); there are twice as
many inodes beside the paths as requests (`InodeAssumption`), as a request has two
files open at most, so that a file can be created; there are as many
buffers as clients (`BufferAssumption`), as the pool makes new ones; a name in a
directory is not empty and has no slash, so keys tell files apart
(`PathAssumption`); no object lies in the directory of an upload
(`KindAssumption`); sizes are positive.

Three things in the models come from the proofs. `FreeInode` takes any inode that no
path and no descriptor has: an inode of a fixed set could be missing, once readers
hold removed files, where the code has no such limit. Completing an Azure upload
takes any list of parts in the client's order, as `azure.go:907` does, not the
acknowledged parts by number. The pages and lists that are computed step by step
(`ListedAfter`, `NextMarkers`) are recursive functions instead of folds.

Induction over numbers is done with the least number of a set of
counterexamples (`LeastNumber`, from well-foundedness): for prefixes, for the reads
of `AzureReaders` and of the decoder, and for names and pages of lists of parts. Only
model-checked is liveness (`CallsReturn`, `ReadCallsReturn`, `EventuallyWiped`, both
`ListingEnds`), as the prover handles neither fairness nor ENABLED.

## What is not modelled

Contents and ciphers are abstract: encryption is a layer, an ETag is a version.

- ACLs, `ListBuckets`, creation of buckets, and `ListParts` of the S3 backend pass
  through to the service or read a directory once.
- `FileSystemBackend` is checked with one key, as keys do not share files (except `k`
  and `k.meta`, which is not modelled). `FileSystemListing` leaves the `.meta` files of
  objects out, which the walk passes over, and has objects whose keys end so; writing
  a file is one step there. One `ReadDir`, and a list request to the S3
  service, is one step.
- Azure: containers, ACLs, pages of listings (the service's own markers are
  passed through), folders that other tools mark with `hdi_isfolder`, the spelling
  of metadata keys (`sanitizeAzureMetadata` lowers and strips it, so names that
  differ only there collide). A call that times out has taken effect or not by
  the time it fails; later effects are not modelled. The service is taken to
  accept the block ids `UploadPart` sends.
- Chunked bodies: a piece stands for one or more bytes, and a signature or the marker
  is not cut inside its text otherwise than between pieces.
- The handler's routing, ACL, multipart and bucket requests parse a request and
  call the backend once; what happens in the backend is in its module.
- The two limiters and `handler_kms.go` are not constructed by `NewServer`;
  `internal/transport` is imported by no package; `stream/aes_gcm.go` is not
  constructed by the encryption factory. Authentication is a function of one
  request's text. The other key providers are single calls. Metrics,
  configuration, server start and shutdown and deployment files have no state of
  the program's own that requests could disagree about.

The types of `S3Backend`, `StreamReader`, `ObjectRequests` and `FileSystemListing` are parts
of their inductive invariants and no properties of the runs, which list what could go
wrong.

## Plan

1. Done: the models above, the composition of virtual buckets with clients, and of
   object requests with the decoder.
2. Done: the proofs above.
3. Not planned: liveness proofs (out of the prover's reach) and the parts listed above
   as not modelled.
