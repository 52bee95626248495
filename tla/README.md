# Verification of nano-torrent

nano-torrent downloads the files of one torrent from one peer, over one socket,
block after block, without ever serving a piece. This directory holds a model of
it in TLA+, the TLC configurations that check the model on small torrents, and
TLAPS proofs for every torrent.

`PROJECT.json` lists the components, runs, mutants, findings, hazards and
theorems, and maps each definition to the lines it is translated from.

## Inventory

| Component | Code | State | Operations | Made correct by |
|---|---|---|---|---|
| start of a run | `main.c`, `parse_torrent`, `readbinaryfile` | the buffer, the metadata, `requested_piece` | read, decode, hash the info, look at the disk | the buffer is the file; the info hash is that of the file's own octets; it resumes at the first piece not on disk |
| session | `handshake_message`, `process_message_loop`, `piece_message` | `requested_piece`, `piece_buf`, locals | one handler per message | one thread of requests; a block is put where it belongs; 1 is returned only when all is there |
| framing | `uclreceive` and its callers | position in the byte stream, `size_to_receive` | read a handshake, a size, a body, the rest of a body | it stays in step with the messages whatever a read returns; it ends when the stream ends |
| storage | `check_next_piece`, `save_piece`, `getfilesize` | the files on disk | sum of the sizes; appends over the ends of files | the files hold a prefix of the torrent; resuming neither loses nor repeats a byte |
| piece check | `check_sha1_piece` | `pieces_sha1` | compare digests | nothing unverified is written |
| SHA-1 accumulator | `sha1.c` | block, index, length, flags | clear, update, result | the digest is that of the padded message however it is cut |
| sockets | `net.c` | `socket_handle` | connect, write, read, close | errors end the program |
| decoder | `bencode.c` | offset, level, error, the open calls of `decode` | `ben_decode`, `ben_decode2` | stays inside its data; decode after encode is the identity; truncated is told from invalid; one encoding per value |
| encoder | `bencode.c` | none | `ben_encode`, `ben_encode2`, `ben_print`, the sizes | the size allocated beforehand is the size written |
| containers | `bencode.c` | arrays of a dictionary and of a list, their capacity | get, set, pop, append, free | a map and a sequence; each value is freed once |
| byte order | `util.h` | none | split an int in four bytes and join them | joining undoes splitting |
| the peer | not in the repository | choke state, queues | BitTorrent | assumed compliant |

How they interact: `main` calls `parse_torrent` (bencode, SHA-1, storage), then
`start_peer_connection` (sockets, session). The session calls storage for each
piece that ends. Between runs only the files on disk survive; `check_next_piece`
rebuilds everything from their sizes. Everything runs in one thread: what
interleaves is the program with its peer and the network, and one run with the
next.

What is hard: the order of messages of two parties that do not wait for each
other; reads that return part of a message; a run that dies between two appends;
pieces that cross the ends of files; short last pieces; state that is recomputed
from file sizes alone; data that breaks off anywhere or is not bencode at all;
allocations that fail inside a recursion; who owns a value after a dictionary
was popped, overwritten or freed. `PROJECT.json` lists each such hazard at its
line.

## Modules

| Module | Models |
|---|---|
| `Torrent` | the metadata as constants, the geometry of pieces, blocks and files, `check_next_piece`, `check_sha1_piece` |
| `Wire` | the connection as two queues of messages; which disturbances a run allows |
| `Client` | one run of the program after another: the start, each handler, `save_piece` append by append, every exit, kills and restarts |
| `Peer` | the peer (external) |
| `Download` | client and peer together; the properties |
| `Fetch` | the abstract download: pieces stored one by one, then reported |
| `Receive` | the reads of the byte stream, call by call |
| `Inbox` | the abstract delivery: whole messages, in order, none twice, some lost |
| `Sha1` | the accumulator and the padding |
| `Bencode` | the values of bencode, the order of keys, the growth of arrays |
| `Decoder` | `decode` and all it calls, one call per step |
| `Encoder` | the text of a value, encoded and printed, and its sizes, as operators |
| `Containers` | the dictionary and the list, and the owner of each value |
| `Collections` | the abstract containers: a map, a sequence, and what was freed |
| `Startup` | `readbinaryfile`, `parse_torrent` with its failures, `main` going on |
| `Codec` | containers, encoder, decoder and start together; the properties |
| `Endian` | the macros of `util.h` that split an int in octets and join them |
| `Recursion` | lemmas on induction over the naturals and on functions defined by recursion |
| `DownloadProofs`, `ReceiveProofs`, `Sha1Proofs`, `DecoderProofs`, `ContainersProofs`, `CodecProofs`, `RoundTripProofs` | the proofs; those about `Endian` are in `ReceiveProofs` |
| `MCDownload`, `MCReceive`, `MCSha1`, `MCCodec` | values of the constants for TLC |

There are two chains of EXTENDS: `Torrent <- Wire <- Client, Peer <- Download`,
and `Bencode <- Containers, Decoder, Encoder <- Startup <- Codec`. They meet in
the constants of `Torrent`, which are what `parse_torrent` takes out of the
decoded dictionary. `Download` instantiates `Fetch`, `Receive` instantiates
`Inbox` and `Containers` instantiates `Collections`, each with a refinement
mapping.

**How state corresponds.** Variables of `Client` have the names of the C
variables. `pc` is where the program is. A byte of the torrent is its position
in the torrent, so a file is right when it holds the right positions in order;
`Garbage` is any other byte. `FileName[f]` is the last component of the path,
the only part the code opens a file by. A file that does not exist is an empty
one: `check_next_piece` and `save_piece` treat -1 as 0. `FileLength`, which
`check_next_piece` recomputes on each call, is a constant, since it depends on
the metadata alone. A digest tells contents apart: `CheckSha1Piece` compares the
bytes with the ones the torrent has there.

**How actions correspond.** One message is read, acted on and answered in one
step; nothing else in the program can run in between. The exception is a piece
that ends: `ReceivePiece` is `piece_message` up to the call of `save_piece`;
`SaveSkip`, `SaveFill` and `SaveRest` are one round of its loop each, `SaveEnds`
the end of the loop with bytes left over; `Reply` is the rest of
`piece_message`. So the program can die between two appends. `Killed` takes
everything in memory, `Restart` is the next run of `main`.

**Bencode.** An octet is a string with its character; `Code` gives the numbers
`memcmp` compares. `off`, `level` and `error` of `Decoder` are the fields of
`struct decode`, and `stack` holds the open calls of `decode_dict` and
`decode_list`, each with the keys and values it has so far: a step is one call
of `decode` up to its own calls, or one turn of the loop of an open container.
Any allocation may fail as far as `Fallible` names its kind. In `Containers` an
array is a sequence of the used places and `alloc` its capacity; `owner` says
who has to free a value. `Nested[n]` is the set of the values whose containers
nest at most `n` deep, and `ByParts` turns one level of a recursive function of
the code (`SerializeWith`, `SizeWith`, `PrintWith`, `PrintedSizeWith`) into the
function of every value up to `MaxDepth`, by recursion on the depth. `clipped`
of `Decoder` is a history variable, which no step reads: it remembers that a
number with a zero octet in it was taken. Where the code goes on with what is no
longer valid (one of the two `realloc` of `resize_dict` failed, a field of the
torrent is missing or of another type, `pieces` is longer than `pieces_sha1`) the
status or the run is `undefined`, and nothing more is done with it. The run may
also be `undefined` where that hangs on something left out: the encoder finds no
memory, or `check_next_piece` divides by a piece length of 0, which it does only
if some of the files are on disk.

**Start.** `ReadOctet` is one turn of the loop of `readbinaryfile`, with the
octet that is stored once too often and taken off again. The run ends in
`connect`, whatever `parse_torrent` returned: that is what `main` does.

**Whole messages.** `Client` reads a message whole, drops it whole
(`DrainMessage`) or gives up (`GiveUp`). `Receive` shows by implementing `Inbox`
that no message is read in any other way, that a dropped message has at least
two bytes in its body (so an unchoke is never dropped), and that the order is
kept, for every way to cut the stream. A read of `Receive` returns what has
arrived up to what was asked for; when bytes arrive is free. There is a fourth
fate, which `Client` leaves out: the connection is lost while a body is drained,
and the program drains for ever (run `receive_spins`). `Inbox` does not exclude
it, since a step that delivers nothing is a stutter. So what `Client` shows of
lost connections, `Completes` among it, is about those lost anywhere but there.

`RecvSize` is what `recv` holds, 2048 bytes in the code, which reads as many bytes
as the message announces. When a read returns more, `Overflow` ends the run as
`undefined`: nothing is said of what follows. A body larger than `recv` that
arrives in smaller parts is drained like any other. No size is above
`LargestInt`: in the code it would be a negative int.

**Disturbances.** `Disturbances` names what may go wrong in a run and
`MaxDisturbances` bounds how often; every other step is undisturbed. `chat`,
`corrupt`, `choke`, `close`, `cut`, `crash`, `torn`, `full` and `rerun` are
explained in `Wire`.

## Properties and runs

TLC runs (module, configuration):

| Run | Checks | Shows |
|---|---|---|
| `download` | `TypeOK DiskIsPrefix CompleteIsWhole RequestIsNext OneThread BlockBelongs DownloadInv`, `ImplementsFetch` | four files, three pieces that cross their ends; chat, corrupt blocks, closed connections, cut reads, kills between pieces, reruns |
| `any` | `OnlyVerified` | every disturbance: chokes, torn and short appends |
| `live` | `RequestsInRange`, `Completes`, `ImplementsFairFetch` | a torrent of one file: the download completes, and no request reaches past the end of its piece |
| `receive` | `TypeOK ReceiveInv`, `ImplementsInbox`, `StopsOrDrains` | framing, with the peer closing or resetting at any byte, and one body larger than `recv`; the loop ends unless it is draining |
| `sha1` | `TypeOK DigestOfMessage Accumulated LengthKept` | every way to cut a message up to the longest |
| `codec` | containers: `OneEntryPerKey OwnedOnce ByStrAgrees`, `ImplementsCollections`; decoder: `InBounds ErrorReported KeysAscend`, `Advances`, `Returns`; with the encoder: `RoundTrip OneEncoding SizesAgree`; start: `ReadWhole InfoHash`; `TypeOK` | every dictionary and list of three objects and three keys, encoded, broken off at every octet and decoded; octets from elsewhere; torrents of one and of several files, whole, cut, damaged, with fields missing or of another type; allocations that fail |

Bounds and why they are enough. Pieces are 4 bytes, blocks 2. `CrossBounds` puts
the file ends so that a piece ends inside the first file and passes an empty
one, a piece lies within a file, a piece is cut by the end of a file, and the
last piece and its last block are short. Three pieces are the first, one that is
neither, and the last. Four disturbances allow any sequence of four, of one kind
or of several; no disagreement below needs more than one. `MCReceive` has a
message of each of the sizes the code tells apart: 0 (keep-alive), 1 (cannot be
cut), 2 and more; `recv` holds 3 bytes, so that the largest body overflows it
when it arrives at once and is drained when it does not. `MCSha1` scales blocks,
words and octets so that the length overflows after 128 octets, and has chunks
below, at and above a block.

In `MCCodec` arrays start at 2 places instead of 4 (`FirstAlloc`), so that the
third entry makes them grow. Numbers have three characters (`LongLongSize` 4
instead of 21) and are at most 20 (`MaxLongLong`), so that ordinary texts hold
numbers that are too long and too large. `MaxLevel` is 16 instead of 256: the
largest torrent just fits, and one input has two values too many. One key is a
number, one a string and one that string followed by a zero octet, which
`strcmp` cannot tell from it. One object is a dictionary with a list in it.
`Inputs` are all texts of up to three octets, three values with any one octet
replaced, two values on end, and numbers with a zero octet in them. `MaxDepth`
is a bound of the model: it must not be less than `MaxLevel`, which bounds how
deep a decoded value nests, so that no value the code can decode is left out.
Three bounds keep what is independent from being multiplied: only a container
that holds all the objects not yet freed is encoded (`Settled`); octets from
elsewhere and files are decoded with no container in use (`Untouched`); and
`ben_decode2` starts at 0, at 1 or at the end (`Starts`). The `level` run lowers
`MaxLevel` to 8, so that the dictionary of the three objects, which is three
levels deep, exceeds it as one of some 130 entries does in the code.

The files are two torrents, of one file and of several, with keys of one letter:
whole, cut anywhere, with an octet replaced, with a zero octet put in anywhere,
and with each field missing, of another type, empty, or, for `pieces`, longer than
`pieces_sha1` (`PiecesSize` 1). The torrent of several files has 16 values, the
limit; `BufSize` is 46, so that the longest file, of 45 octets, just fits the
buffer with the octet stored too many.

Deadlock is not checked in the runs where the system really stops: the download
is over, or both sides wait, or the caller of the decoder has its answer.

Fairness (`Download!Fairness`): the program is scheduled, so it takes its steps;
its user starts it again when it has ended; the peer reads what it gets, unchokes
an interested client and serves a valid request. Nothing asks a connection to be
lost, nor a second choke to be undone. Disturbances are finitely many by their
bound. `Receive!FairSpec` asks only that the program is scheduled, and so does
`Codec!FairSpec`, of the decoder alone: a call of `ben_decode` that has begun
goes on.

### Disagreements between code and comments

Each is a run that TLC must find violated, and a finding in `PROJECT.json`.

| Run | What happens |
|---|---|
| `choke` | An unchoke always sends a request (line 409). A peer that chokes and unchokes once, while an answer is under way, starts a second thread of requests; a piece is saved twice and the sizes add up to a download that is complete and wrong. |
| `torn` | A run dies between two appends. The next run takes the sizes for whole pieces (line 343) and appends the piece again. |
| `rerun` | Started with everything on disk, the program asks for piece -1. |
| `cut` | A block whose read is cut is thrown away and never asked for again. |
| `receive_spins` | The stream ends while the rest of a cut body is read: line 389 loops for ever. |
| `level` | `level` counts the values decoded and not their depth (line 393 of `bencode.c`): a dictionary that `ben_encode` wrote, however flat, is refused as invalid when it has enough entries. |

The conditions under which the other runs and the proofs hold leave these out:
`Orderly` chokes, torn and short appends and files of one name, `WholeBlocks` and
the torrent of the `live` run a last piece shorter than a block. `OnlyVerified`
needs none of them, and says less: it tells bytes that failed the check from
bytes of the torrent, and not whether these are in their place.

Seen as well, and without a run of their own:

- The first request of a session, and the first after a piece ended, do not
  know how long the last piece is. Where it is shorter than a block they reach
  past its end: line 207 works the length out from the piece just received. TLC
  finds `RequestsInRange` violated in the `live` run when `Bounds` is `<<0, 9>>`.
- Two files with the same name in different directories are one file on disk,
  whose size is counted for each (lines 311 to 317). With two files of two bytes
  and one name, `Bounds` `<<0, 2, 4>>`, TLC finds `CompleteIsWhole` violated
  though nothing disturbs the download: 1 is returned with half of it there.
- Nobody looks at what `fwrite` returns (line 275). When `full` is among the
  `Disturbances` of the `download` run, TLC finds `CompleteIsWhole` violated: after
  an append that fell short, bytes of the next piece take the place of the missing
  ones, and the sizes add up over wrong files.
- A number with a zero octet in it is decoded up to the zero: `strtoll` stops
  there, and the test of `*endptr` (line 274 of `bencode.c`) takes that zero for
  the end. Line 277 wants "a unique encoding for all integers", and the info hash
  of a file with such a number in its info dictionary is not that of the file's
  octets. `OneEncoding` and `InfoHash` say so: they hold while `clipped` is
  false, and TLC finds both violated by the inputs and the files of `MCCodec` when
  that condition is dropped. It is the only exception.
- A program killed after its last append and before it returned finds everything
  on disk and asks for piece -1, as in `rerun`.

## Proofs

All theorems hold for every value of the constants that the named assumptions
allow: any number of files, empty ones among them, any piece and block length,
any number of disturbances; any stream of messages whose sizes are no negative
ints, and any cut, up to a read that returns more than `recv` holds; any size of
blocks, words and octets; any keys, any objects, any octets given to the
decoder. The assumptions are `TorrentAssumption`, `WireAssumption`,
`ReceiveAssumption`, `Sha1Assumption`, `PowersAssumption`, `BencodeAssumption`,
`EncoderAssumption`, `DecoderAssumption`, `ContainersAssumption`,
`StartupAssumption`, `CodecAssumption` and `HoldableAssumption`, and TLC
evaluates each of them. `PowersAssumption` states laws of powers that hold for
all sizes and that the provers do not know. `HoldableAssumption` says what a C
caller can hold: the numbers in its values are `long long`, no string is longer
than one can say, and a dictionary, being made by `ben_dict_set`, has no key
twice; and it says that the digits of a `long long` fit the array
`read_long_long` copies them to (`LONGLONGSIZE`).

**The download**, `DownloadProofs`.

- `TypesHold`: types, in any environment. It needs `SaveFits` (what is left of a
  piece lies within `piece_buf`) to be inductive.
- `OnlyVerifiedIsWritten`: nothing unverified is written, in any environment.
  Inductive with: while `save_piece` runs, the part of `piece_buf` still to be
  written passed the check. It holds with two threads of requests too, as no
  block is handled while `save_piece` runs.
- `InvHolds`, under `Orderly` (no choke, no torn or short append, no two files of
  one name): the inductive invariant `DownloadInv`. `DiskIsPrefix` alone is not
  inductive: the next piece is right only if the blocks that make it are of the
  piece asked for. So `ThreadInv` says that at most one of unchoke, request,
  block and saved piece is there; `AskedInv` that whatever is asked for or
  answered is of `requested_piece`; `DiskInv` that the disk holds whole pieces
  outside `save_piece`, and (`SavingInv`) whole pieces and `index` bytes inside
  it, with file `i` not past the next byte. `PrefixHolds`, `CompleteHolds`,
  `RequestIsNextHolds` and `OneThreadHolds` follow.
- `BlockBelongsHolds`, under `Orderly`: on top of `DownloadInv`, `BufferInv` says
  that whatever lies behind the next block is in `piece_buf` already, be the next
  block a request, an answer or about to be asked for.
- `RequestsInRangeHolds`, under `Orderly` and `WholeBlocks` (a piece is a number
  of whole blocks, and no piece is shorter than one): `RangeInv` says that
  each block begins at a multiple of the block length inside its piece.
- `DownloadImplementsFetch`, under `Orderly`: the mapping takes the number of
  pieces on disk. `Stored(k)` ties that number to the sum of the file sizes; an
  append inside a piece leaves it alone, and the one that ends a piece adds one.
- The module begins with the geometry: `TotalSizeIsSum` ties the sum of
  `check_next_piece` to the prefix the files hold; the rest is the arithmetic
  of pieces. `Recursion` is induction over a set of naturals, its minimum, and
  what a function defined by recursion on a natural is at each of them.

**The framing**, `ReceiveProofs`: `SyncHolds` and `ReceiveImplementsInbox`. The
loop is in step with the stream of messages, however it is cut, and implements
`Inbox`; of a read that overflows `recv` they say nothing but that it is the last.
The invariant says of a body under way that what was read and what is left end
at the next message.

**SHA-1**, `Sha1Proofs`.

- `Sha1Types` needs `BusyInv`: octets are fed only to a digest that is open and
  not corrupted.
- `Sha1Length`: `Carry` does the arithmetic of the two words. Both are multiples
  of the bits of an octet, so the low word passes its end only by reaching 0.
- `Sha1Accumulates`: the invariant `Held` says that the compressed blocks are
  whole, that they and the filled places of `Message_Block` are the octets of the
  message in order, and that nothing else is.
- `Sha1Digests`: from `Held` and the length, the one or two blocks of the padding
  are what SHA-1 asks for (`PadOne`, `PadTwo`); `LengthOctetIs` shows each octet
  of the two words to be that octet of the number they stand for.

**Bencode, the parts**, `DecoderProofs` and `ContainersProofs`. These theorems are
of `DecoderSpec` and `ContainersSpec`.

- `DecoderInBounds`, `DecoderReports`, `DecoderKeys` and `DecoderTypes` follow
  from `DecoderInv`: each frame of the stack is well formed (`IsFrame`: as many
  keys as values, the keys in ascending order and the next one behind them),
  there are no more frames than octets taken, and a failure has an error, but for
  a string there is no memory for.
- `DecoderAdvances`, by one case for each action (`StepTakes`): a step either
  ends the call or moves `off`, also when `ben_decode` is several containers deep.
  With `InBounds` this bounds the steps of a call by its octets and one; that they
  are taken, `Returns`, is left to TLC. `CodecAdvances` says the same of the
  composition, where nothing but such a step changes what a call has.
- `ContainersOwn`, `ContainersPaired` and `ContainersTypes` (no array has more
  in it than was allocated for it) follow from `ContainersInv`: no key and no
  value twice, as many keys as values, within the capacity (`DictInv`); the same
  of the items (`ListInv`); and an object is owned by the dictionary or the list
  exactly when it is in there.
- `ContainersByStr`: `SameStrIs` shows that the length and `strcmp` together
  compare whole strings, zero octets or not, and `CmpEqual` that `ben_cmp` finds
  two keys equal only if they are one.
- `ContainersImplementCollections`: the map is the set of entries, whatever their
  order (`IsMap`), which is why the move of the last entry into a hole is a step
  that only takes one away.

**Bencode, the whole**, `CodecProofs`. These theorems are of `Codec!Spec`, in
which a caller, the encoder, the decoder and the start of a run work together.
They hold for values of every depth up to `MaxDepth`, for every payload, every
input and every file.

- What a text is. `Serialize` is a recursion on depth. `TextsAgree` shows by
  induction that one more level changes nothing for a value that needs fewer, so
  that the text of a container is made of the texts of its parts (`SerializeList`,
  `SerializeDict`). `SortedIs` shows that an order by `ben_cmp` exists, for
  `Sorted` is defined by choosing one; `SortedInPlace` that keys which ascend
  already stay where they are. `NumeralLongLong` shows that a number the decoder
  takes is written as it was read.
- `CodecOneEncoding`. `OneEncoding` alone is not inductive: a container that
  closes becomes one value, and its text must be the text of its frame. So the
  invariant `ValueInv` says that the octets taken are the texts of the frames, in
  order, that a value returned is encoded to all that was taken, and
  (`TypedStack`) that the values inside a frame nest less deep than what is left
  of `level`, so that they are values the encoder knows. `ClosedText` is the
  heart: since the keys of a frame ascend, the encoder puts the entries of the
  dictionary in the order in which they were read.
- `CodecReadWhole` and `CodecInfoHash`, by `StartInv`: the buffer is the beginning
  of the file, with one octet too many at the end; what is decoded is the file;
  and once a torrent was accepted no decoding goes on. From `ValueInv` the file
  is the encoding of the decoded value, and `InfoWithin` finds in the encoding of
  a dictionary that of the entry `ben_dict_get_by_str` returns, behind its key.
  That there is an info hash exactly if `parse_torrent` returned 1 needs
  `InfoHasText`: the encoding of a dictionary is not empty.
- `CodecSizes`: `SerializeLen` and `PrintedLen` say of every value what the
  assertions of `ben_encode` and `ben_print` say. Escapes are counted as they are
  written (`CharPrinted`), and separators (`SeparatedLen`) too; the size of a
  dictionary is a sum in the order of insertion and its text is in the order of
  keys, which is why sums do not depend on an order (`TotalPermuted`).
- `CodecTypes` and `CodecDecoder`, by `CodecInv`, which is the invariants of
  decoder, containers, values and start together. TLC finds no state of the
  `codec` run that violates them.
- `CodecImplementsContainers` and `CodecCollections`: in the composition the
  containers still implement their own specification, and so `Collections`.

**What was encoded decodes to itself**, `RoundTripProofs`. `CodecRoundTrip`: the
text of whatever a caller has built, given to `ben_decode` or `ben_decode2`
whole or broken off anywhere, is taken for that value when it is whole, and for
insufficient data when it is not, unless there are more than `MaxLevel` values
in it or memory runs out: a failure for want of memory counts only if an
allocation that may fail (`Fallible`) is one that sets this error. The theorems
of `CodecProofs` say what the decoder takes and not what it must take, so this
one has an invariant of its own, `SentInv`, on top of `CodecInv`.

- A plan (`IsPlan`) says what is to come of one container: its keys and values in
  the order of the text, and for each place what follows it, up to the end of
  the whole text, and how many values that is. `ListPlan` and `DictPlan` show
  that each value has one (`SomePlan`), from `SerializeList`, `SerializeDict` and
  the order of `Sorted`.
- A path (`OnPath`) gives each open frame its plan, within that of the frame
  around it: the frame has exactly the first parts of its plan (`Meets`). `Left`
  says that the text from `off` on is what follows the place reached, as far as
  the data go, and that `level` plus the values to come is `Count`. `SentInv` says
  that such a path exists while the decoder is busy, that a failure is for want of
  data or memory, and that a value returned is `Normal` of the one sent and took
  the whole text. The data may be shorter than the text, so it says of each octet
  only that it is right if it is there.
- The numbers: `DecimalRead` and `NumeralRead` show that the decoder's tests
  (`WellFormed`) let each numeral of the encoder through and that the number read
  is the one written. The letters: `SendableStarts` and `CallComes` show that
  `decode`, wherever it is called, sees the letter the value begins with, and that
  the loop sees `e` exactly where the parts are at their end. Keys: those of the
  plan ascend, so `BadKey` refuses none. `TooFew` and `ManyCourse`: `level` cannot
  pass `MaxLevel`.
- There is one lemma for each action of the decoder (`ManyCourse` to
  `CloseCourse`), and `SentNext` puts them together with those of the caller.
  TLC finds no state of the `codec` run that violates `SentInv`, with the path
  computed from the stack instead of asked for.

**Byte order**, in `ReceiveProofs`: `FieldRoundTrip` for every 32-bit int, and
`FieldsDiffer`.

Only model-checked: liveness (`Completes`, `StopsOrDrains`, `Returns`,
`ImplementsFairFetch`), which the prover does not reach. Every other property of
a passing run is a theorem.

## Not modelled, and why

- The compression function of SHA-1 is uninterpreted: what a digest is does not
  matter to the rest, only which blocks it is of. `sha1_finish` and
  `sha1_hexstring` are used by nothing.
- Output (`printf`, `hexdump`) and `clean_memory`, which only frees at the very
  end, change nothing another part reads.
- Integers are unbounded except in `Sha1`, `Decoder` and `Endian`. The 32-bit
  sums of sizes would matter beyond 2 GB; the program's buffers limit it to
  torrents of some 3 MB.
- Writes of part of a message: one is at most 68 bytes. A failing `fopen` of an
  append; failing allocations of the encoder, which make it return nothing.
- A .torrent file larger than the buffer that reads it.
- What the program does after it has left what C defines: with a torrent whose
  fields are missing or of another type (those `check_next_piece` looks up among
  them) or whose piece digests outgrow `pieces_sha1`; after a read that returned
  more than the 2048 bytes of `recv`; and with a message of 2^31 bytes and more,
  whose size is a negative int. What a seed sends of a torrent the program can
  hold is far smaller.
- The peer is taken to be a compliant seed; messages it should not send are not
  modelled.
- The sample .torrent files and the Makefile are data and build rules.

What could still be added: the compression function against a reference, which
needs 32-bit words that TLC has no room for; and the encoder as a machine of
puts into a buffer, which would say of the room before each put what
`SizesAgree` says of the whole text.
