# nalchi in TLA+

nalchi adds two things to Valve's GameNetworkingSockets (GNS): payloads that
several messages share, so that a multicast does not copy them, and bit streams
that pack values into those payloads. These modules specify both, TLC checks
them on small instances, and TLAPS proves the main invariants for every value
of the constants. A last specification puts all of them together: a letter that
is measured, written, sent and read. Paths below are relative to the repository's
root.

## The system

| Component | State | Operations | Talks to |
|---|---|---|---|
| `shared_payload` (`src/shared_payload.cpp`) | one malloc'ed block: atomic reference count, 32-bit size with a flag in its top bit, bytes rounded up to words | `allocate`, `force_deallocate`, `size`, `set_used_bit_stream`, `add_to_message`, the release callback | called by the program, the writer, `socket_extensions` and GNS |
| `socket_extensions` (`src/socket_extensions.cpp`, `include/nalchi/socket_extensions.hpp`) | none of its own; the messages of the running call | `unicast`, `multicast` | `add_to_message`, then GNS `SendMessages` |
| GNS (external) | queued messages | `SendMessages` queues or rejects each message; threads of its own, and the receivers, read it; releasing it calls `m_pfnFreeData` | the release callback |
| `bit_stream_writer` (`include/nalchi/bit_stream.hpp`, `src/bit_stream.cpp`) | scratch register of two words and its index, the words and their index, total and used bits, `_fail`, `_init_fail`, `_final_flushed` | construct, `reset`, `reset_with`, `restart`, `set_fail`, `write` of integers, floats, bytes, strings, `flush_final` | writes the payload's bytes, sets its flag |
| `bit_stream_reader` (same files) | the mirror of the writer, without the final flush | `reset`, `reset_with`, `restart`, `set_fail`, `read`, `peek_string_length` | reads the bytes of a received message |
| `bit_stream_measurer` (same files) | used bits | `write`, `restart` | gives the size for `allocate` |
| integer range encoding (`do_write`, `do_read`) | none | a value in `min..max` to and from `bit_width(max - min)` bits | writer, reader, measurer |
| message path (a program on either side) | where the letter is | measure, `allocate`, write, send; receive, read | all of the above, on two hosts |
| flat C API (`src/*_flat.cpp`) | none | one forwarding call per method | all of the above |

A send goes: measure, `allocate`, write through a writer, `flush_final`,
`multicast` to n connections. `multicast` adds one reference per message, then
hands all messages to GNS; each message drops its reference when GNS releases
it, on whatever thread that is, and the last one frees the block.

What is hard in it:

* the payload is shared by threads that know nothing of each other, its address
  is reused as soon as it is freed, and `SendMessages` may reject some of the
  messages (`shared_payload`, `socket_extensions`);
* the reference count is decremented with relaxed ordering;
* sizes are rounded up in three places that must agree (allocation, writer,
  send);
* the writer keeps three cursors, and stores words without a bound check: only
  the check of the logical length stands between it and an overrun;
* bytes and strings are written in loops without checks, after one check of the
  whole;
* sizes in bits are computed in 32 bits;
* the reader loads words without a bound check, consumes scratch bits before it
  knows that a value is in range, and casts lengths to a signed type.

What makes each component correct:

* payloads: the count is exact, nobody uses freed memory, nothing leaks, what is
  sent lies within the block, and every payload sent is freed;
* writer: what the buffer holds after the final flush is exactly the
  concatenation of the writes that were accepted; a write is accepted whole or
  not at all; nothing is stored outside the buffer;
* reader: it returns what was written as long as nothing failed, never loads a
  word outside the buffer, and peeking changes nothing;
* measurer: it counts what the writer uses;
* encoding: decoding the encoding is the identity on `min..max`, and nothing
  outside `min..max` is ever returned;
* message path: a payload of the measured size takes the letter, what is sent is
  within it and holds the letter and zeros, reads that mirror the writes give
  back what was written, on hosts of either byte order, and nothing of a letter
  that is over stays allocated.

## The modules

| Module | What it is |
|---|---|
| `SharedPayload` | the heap: the block at each address, and the fragments of steps that read or change one |
| `Multicast` | callers, messages and the release callback over `SharedPayload`; the specification of the first two components |
| `PayloadOwnership` | what they promise: a payload belongs to the user, then to a set of messages, then to nobody |
| `MulticastProperties`, `MulticastProofs`, `MCMulticast` | properties and refinement mapping, proofs, TLC instance |
| `BitWords` | words, the scratch register and the shifts, bit by bit |
| `BitStreamWriter` | the specification of the writer |
| `BitSink` | what it promises: a sequence of bits with a capacity, that grows by whole writes |
| `BitStreamWriterProperties`, `BitStreamWriterProofs`, `MCBitStreamWriter` | properties and refinement mapping, proofs about the cursors, the sizes and the content, TLC instance |
| `MeasuredWriting`, `MCMeasuredWriting` | the measurer in lockstep with the writer, its properties, TLC instance (the proofs are in `BitStreamWriterProofs`) |
| `BitStreamReader` | the specification of the reader |
| `BitSource` | what it promises: the bits of a fixed content, in order, each once, up to a limit |
| `BitStreamReaderProperties`, `BitStreamReaderProofs`, `MCBitStreamReader`, `MCReading` | properties and refinement mapping, proofs, TLC instances; `MCReading` is the one whose sums do not wrap |
| `NatLemmas` | the naturals as the provers need them: induction, powers of two, intervals, division |
| `RangeCodec` | the journey of one integer through `do_write` and `do_read`, with its properties |
| `RangeCodecProofs`, `MCRangeCodec` | proofs, TLC instance |
| `Transport` | the composition: a program measures, allocates, writes and sends a letter, GNS carries it, another program reads it |
| `Letters` | what the whole library promises: items that are written and sent arrive in order, whole or not at all |
| `TransportProperties`, `TransportProofs`, `LetterPayloadProofs`, `LetterProofs`, `MCTransport` | properties and refinement mapping, proofs about sizes, about the payloads of letters and about what a letter says, TLC instance |

### Multicast

State: `live`, `bytes`, `sizeField`, `refCount` are the blocks of the heap, by
address; an address that is freed may be returned by the next `allocate`. `pc`,
`payload`, `todo`, `length` are the local state of the thread that allocates and
sends. `msgState`, `msgPayload`, `msgSize` are `SteamNetworkingMessage_t`
objects, and `reading` is a load of the payload in progress through a message.

| Action | Code |
|---|---|
| `Allocate`, `Discard` | `allocate`, `force_deallocate` |
| `UseBitStream` | `bit_stream_writer::reset_with(shared_payload, ...)` sets the flag |
| `Unicast`, `Multicast` | the entry of the two calls; a multicast to nobody frees the payload and is over |
| `SetupMessage` | one iteration of the loop, with all of `add_to_message` |
| `Submit`, `SendReturns` | `SendMessages` (external): each message is queued or rejected |
| `BeginRead`, `EndRead` | a GNS or receiver thread reads the payload (external) |
| `DropReference`, `DeallocateLast` | the release callback: the `fetch_sub`, then the free by the thread that saw 1 |

The free is a step of its own, so other threads run between the decrement and
it. The caller is assumed to send no more than it allocated and to leave a
payload alone once it was sent, as `include/nalchi/shared_payload.hpp` asks; it
may hold several payloads in flight. A failed `malloc` and a refused size change
nothing.

`WeakMemory` chooses the memory model of the decrement: FALSE, a thread's reads
complete before its `fetch_sub`; TRUE, as `memory_order_relaxed` permits, they
may complete later (the free still comes after the freeing thread's own reads).

### BitStreamWriter

`out` holds the fields that a write changes: the scratch register and its index,
the words, the words index and the used bits. The buffer is a function from bit
positions, so "the word that is flushed" is a range of it, and
`written` records, as history, the bits of every accepted write.

The writer is single-threaded. A write of one value is one action
(`do_write` with its split into halves and its flushes); writes of bytes and
strings are an action up to the loop, with the check and the prefix, and
`PutNext` per iteration, so that the invariants are seen between iterations.
`Restart`, `Reset`, `ResetWith`, `SetFail`, `FlushFinal` are the methods of
those names. Values are sequences of bits; conversions of integers and floats to
bits are not part of this module. On a big-endian host the code swaps the bytes
of each word, which makes the bit positions the same.

Data of the loops is chosen nondeterministically, bit by bit. The data given to
`ResetWith` covers null buffers, empty buffers, and logical lengths that do not
fit.

### MeasuredWriting

`bit_stream_measurer` has no state but a count and talks to nobody: what matters
is that it agrees with a writer that is given the same calls. `MeasuredWriting`
therefore runs the two side by side. `MeasuredWrite` pairs each `write` of the
writer with the `write` of the measurer, also when the writer refuses it;
`StartOver` pairs the resets of the writer with `restart` of the measurer; the
iterations of a loop and the final flush are not measured (`Unmeasured`). Once
the writer has failed nothing is compared until the next start. The measurer
chooses the width of a length prefix by its own code (`MeasuredPrefixBits`), so
that a disagreement with the writer's (`LengthPrefix`) would show. `UsedBytes` is
what a program passes to `allocate`.

### BitStreamReader

`in` holds the scratch register, the number of its bits, the words index and the
used bits; `taken` records, as history, the bits that were counted as read. The
buffer is a sequence of bits, chosen when the stream is opened, of any content:
the reader must be safe on streams nobody wrote.

| Action | Code |
|---|---|
| `Read` | `do_read<true>` of an integer: the overflow check, one or two takes, the range check |
| `ReadBytes`, `ReadString`, `ReadNext` | the checks and the length prefix of the loops, then one iteration each |
| `PeekStringLength`, `PeekReturned` | the peek, and the return of its result (`peeked`) to the caller |
| `Restart`, `Reset`, `ResetWith`, `SetFail` | the methods of those names |

A value above the span of its range may be refused or, when the sum with `min`
wraps, accepted; `Read` allows both, and `RangeCodec` says which happens. A
refused value leaves the scratch advanced and the used bits not, as the code
does. `SizeMod` and `LengthMod` both stand for 2^32: one for the sums of
`size_type`, one for the cast of a length to `ssize_type`. They are two constants
so that an instance can have lengths that are cut while no sum wraps.

### RangeCodec

One value at a time: a type (its half range, whether it is signed, whether it is
narrower than `int`), a range, a value. `Write` refuses it or puts the offset on
the wire; `Garble` puts any bits there instead, as a stream written with another
range would; `Read` converts and checks. Arithmetic is modulo the type, as the
casts have it, and in `int` for narrow types. `bool` is the unsigned type of its
width. `Undefined` marks where the sum of the code leaves a signed type that is
not promoted.

### Transport

`Transport` EXTENDS `MeasuredWriting` (measurer and writer of the sender) and
instantiates `Multicast` (`S!`, with one caller, the `Sender`) and
`BitStreamReader` (`R!`, over the words that arrived). No state of the components
is copied: the words the writer fills are the payload's, `ResetWith` is called
with what `sizeField` holds, a send with what the writer says it used, and the
reader with what the message carried.

`phase` is where the letter is: `"plan"` (the measurer runs), `"open"` (a payload
is allocated), `"write"`, `"sent"`, `"read"`, or `"over"` (discarded, lost, or
refused by `allocate`). `plan` holds the calls that were measured, `log` the
accepted writes and where they end, `marks` where the successful reads end;
`inbox` is the message that arrived.

| Action | Code |
|---|---|
| `PlanCall` | `write` of the measurer |
| `Allocate`, `GiveUp` | `allocate(measurer.used_bytes())`, and its null result |
| `OpenWriter` | `reset_with(shared_payload, logical_bytes_length)`: the flag of the payload, then its span of words |
| `WritePlanned`, `WriteUnmeasured`, `WriteLoop`, `Flush`, `Rewrite` | the writer's `write`, an extra one that may find no room, the iterations, `flush_final`, `restart` after a failure or a flush |
| `Send`, `Discard` | `unicast` or `multicast` with `used_bytes()` or the payload's size; `force_deallocate` |
| `NetworkStep`, `Deliver`, `Lost` | the loop of `multicast`, GNS (external), the release callback; a read of the message that brings its bytes to the receiver, or none that does |
| `Receive` | `reset_with(words, logical_bytes_length)` of a reader over the message |
| `ReadCall`, `Peek`, `ReadOn` | `read`, `peek_string_length`, the iterations |
| `NextLetter` | the same measurer, writer and reader are used again |

The two hosts are little- or big-endian, each on its own: `Bytes` is how a host
lays a word out, `Swapped` the `std::byteswap` of the code on big-endian hosts,
and `Carried` a word that is stored by one and loaded by the other. A program
need not write all it measured, may write more, may skip `flush_final`, and may
send either length. The receiver reads after the sender is done with its
messages: its memory is its own, so the order makes no difference. One
connection is enough, because copies of a message are the subject of
`Multicast`. A letter without a bit is sent as a message without words, over
which a reader fails from the start.

`Letters` knows neither bits nor messages. Its draft is a sequence of items; the
refinement mapping cuts the sender's and the receiver's streams at the ends of
the writes and reads.

## The runs

| Run | Instance | Shows |
|---|---|---|
| `multicast` | 2 threads, 2 addresses, 2 messages per thread in flight, words of 2 bytes, limit 2 bytes; with fairness | exact counts, no dangling reference, no leak, no read after free, sizes fit, `PayloadOwnership` is implemented, and every payload sent is freed |
| `multicast_relaxed` | 1 thread, 1 address, 2 messages, `WeakMemory` | fails: see below |
| `writer_safety` | bytes of 1 bit (words of 4), buffers of 0 and 3 words, logical lengths of 10 and 13 bits (too long) | the writer's invariants, stream = accepted writes, `BitSink` is implemented; the measurer counts what the writer uses, and a buffer of the size it gives refuses no write |
| `writer_wrap` | bytes of 2 bits, `size_type` of 4 bits, a buffer of 1 word | fails: see below |
| `reader_safety` | bytes of 1 bit (words of 4), all buffers of 3 words that repeat their first word, one of 9 words, and none; logical lengths of 10 bits, and of 35 (too long for 3 words, and 3 once it wraps); lengths cut at 16 | the reader's invariants, reads = front of the buffer, `BitSource` is implemented |
| `reader_wrap` | the same, and data of 32 bytes, as long as `size_type` counts | fails: see below |
| `reader_peek_fails`, `reader_peek_length` | bytes of 1 bit, buffers of 3 words | fail: see below |
| `codec_safety` | all values in all ranges of types of 3 and 4 bits, signed and unsigned, narrower than `int` and not | what is written is read; bits fit; no two wires are read as one number of the range |
| `codec_in_range`, `codec_defined` | the same | fail: see below |
| `transport` | bytes of 2 bits (words of 8), payloads of at most 12 bytes (3 words), 1 message, at most 2 measured writes and 1 more, hosts of both byte orders | the bytes used fit the payload, the roundings agree, what is sent is the letter and zeros, every stored write is read at its place, a peek tells the length of the string, and `Letters` is implemented |

Why the bounds are enough: two payloads and two threads give reuse of an address
while old messages exist and two threads that release messages of one payload;
two messages give a last and a not-last reference, in either order. `MaxMessages`
bounds the messages of a thread in flight, and released ones are handed out
again, so runs of the system are unbounded. Words of two bytes with requests of
0, 1 and 3 bytes give a refused size at either end and one that is not a whole
number of words; a send of 1 byte is rounded up to the last byte of its block and to
the limit. (Payloads of several words, and those that are sent in part, are in
`transport` and in `SentSizesFit`.) Callers and addresses are not reduced by symmetry, because a
liveness property is checked in the same run. For the writer, values of 1, 3, 4, 5 and 8 bits
against words of 4 reach every alignment: values that end at, before and past
the boundary, and values that fill two words; three words and a total of 10 bits
give two full words and a partial one, with writes that just fit and that do
not. Old contents of the buffer are all zeros or all ones. Strings and data of
length 0 are included; strings of 0, 1, 2 and 4 characters take prefixes of the
first three widths, with a length that just fits the first. In `writer_safety` no sum wraps (`SizeMod` is 64):
a usable length that wraps needs a buffer longer than this instance can explore, and
is left to the theorems.

For the reader, ranges of 1, 3, 4, 5 and 8 bits, two of them with unused codes,
meet words of 4 at every alignment; data of 0, 3 and 11 bytes (the last does not
fit) and strings of one- and two-byte characters, with `max_length` 1 and 4,
start their loops anywhere. All 256 values of the first two words give every
length prefix of all four widths, lengths that are negative when cast (8 to 15
modulo 16), and lengths beyond the room. The third word, the partial one,
repeats the first to keep the instance small: the proofs do not restrict it. In the
nine-word buffer a length of 35 bits fits and wraps to 3 (`SizeMod` is 32): the
stream is usable, and must keep to the 3 bits. For the
codec, all values and ranges of each type are enumerated, so small widths are
complete; nothing in the arithmetic depends on the width but the promotion to
`int`, which is chosen per type.

For the message path, bytes of two bits make the roundings from bits to bytes and
from bytes to words two different ones, and a word has four bytes, so that the
byte order shows. Integers of 1, 3 and 10 bits (one range with unused codes, one
value of more than a word), data of 0, 1 and 3 bytes and strings of 0 and 4
characters, two measured and one not, end anywhere in a word and reach past the
second; `MaxSend` of 12 bytes lets `allocate` refuse what two writes may measure,
and gives payloads of one, two and three words. What a loop writes is
fixed by its position (`Data`, in which no two neighbouring bytes are equal): the
question here is the place of a write, not its content. One letter follows
another without end (`MaxCalls` bounds only the measured writes of a letter), so
payload, writer, reader and measurer are reused with whatever the last letter
left in them.

Fairness (`multicast`): a call that has begun runs on (weak fairness of
`SetupMessage` and `SendReturns`); GNS submits what it was given, reads end, and
a callback that began ends. Releasing a message has strong fairness because reads
of it may start again and again: it says that GNS releases every message it took,
once sent or when its connection closes. Nothing is assumed about the program: it
may never send what it allocated.
`Transport` states none: it is about what arrives, and a network may lose
everything.

`UnusableStaysFailed` is about the numbers as the code computes them:
`totalBits` is the wrapped `8 * logical_bytes_length`.

### The runs that fail

* `multicast_relaxed`. `decrease_ref_count_and_deallocate_if_zero` uses
  `fetch_sub(1, std::memory_order_relaxed)` (`src/shared_payload.cpp:176`).
  Nothing orders the reads of a thread before its decrement, nor the other
  threads' decrements before the free: on a weakly ordered machine the block can
  be freed while a read through another message is outstanding. Locks inside GNS
  may hide this; nalchi's own code does not rule it out. The usual remedy is a
  release decrement and an acquire fence before the free.
* `writer_wrap`. `write(const void*, size_type)` checks
  `_logical_used_bits + 8 * size` in 32 bits (`src/bit_stream.cpp:129`). A size
  of 2^29 bytes becomes 0, passes, and the loop runs past the buffer. The string
  overloads compute in `size_t` and are not affected.
* `reader_wrap`. The reader's `read(void*, size_type)` has the same check
  (`src/bit_stream.cpp:261`), with the same outcome: the loop loads words past the
  buffer, without failing.
* `codec_in_range`. `do_read` refuses a result above `max` only
  (`include/nalchi/bit_stream.hpp:1049`): an `int8_t` read with the range
  100..120 from the five bits 31 is 131, that is -125, and is returned.
* `codec_defined`. For a type not narrower than `int` the sum
  `((SInt)value) + min` is computed in it
  (`include/nalchi/bit_stream.hpp:1044`, 1130), and overflows for any
  non-negative `int32_t` read with the default range: undefined behaviour, though
  the wrapped result is right (`RoundTrip`).
* `reader_peek_fails`. The documentation of `peek_string_length` says that it
  returns a negative value and sets the fail flag; a 32-bit length of 2^31 or more
  gives a negative value without it (`src/bit_stream.cpp:351`).
* `reader_peek_length`. A 64-bit length is cut to 32 bits
  (`src/bit_stream.cpp:357`), so a length of 2^32 + n is returned as n. Reading
  such a string stays within the buffer all the same (`LoopFits`).

## The proofs

`MulticastProofs` proves, for any finite set of callers, any addresses, sizes
and number of messages: `TypeCorrect`, `RefCountCorrect`, `NeverDangling`,
`NeverLeaks`, and `NeverReadAfterFree` under `~WeakMemory`. None of these is
inductive alone. The invariant that is, `IInv`, joins

* `TypeOK` and `RefCountIsHolders`;
* `CallersInv`: a payload that a caller works on is live and no other caller's; a
  caller that owns one has no message of it, one that is setting up has more to
  set up;
* `MessagesInv`: a message that is freeing is the only one of its payload, a
  message that is attached belongs to a call that is running, and every message in
  use has a live payload;
* `ReachableInv`: a live payload has somebody who will free it;
* `ReadsInv`: a read in progress belongs to a queued message and to its payload.

The proof has a lemma per action. The step that matters is `DropReference`: when
the count is 1, `RefCountIsHolders` makes the message the only holder, and its
caller has gone on to send, so the message may become the one that frees.

`SentSizesFit` (`SentSizeFits`) rests on `SizesInv`: a block that is allocated is
as long as its size rounded up to words, and the length of a running call is at
most that size. Rounding is monotone and leaves whole words alone
(`CeilMonotone`, `CeilOfWords`), for words of any size.

`ImplementsOwnership` proves `RefinesOwnership` with the same `IInv`: the holders
of a payload, as the mapping has them, change by one message in `SetupMessage`
and where a message is recycled (`DropReference`, or `DeallocateLast` for the last
one), the owner changes where a caller allocates, hands over or gives up, and
every other step leaves both as they are.

`BitStreamWriterProofs` proves, for any width of a byte, any buffers, values and
strings: `TypeCorrect`, `CursorsCorrect`, `ScratchCorrect`, `LoopsFit` and
`NeverOverruns`. They assume `NoWrap`: no sum that is compared
with the logical length reaches 2^32 (`writer_wrap` is what happens otherwise).
The logical length itself may wrap: `Totals` are the lengths as
`8 * logical_bytes_length` leaves them in `size_type`, and since a wrap only makes
it shorter (`WrapShorter`) it stays within the words. The invariant is `WriterInv`: types,
the cursors, the clean scratch, the configuration (a usable stream has a logical
length within its words) and the loop's room. The algebra of `do_write` is in
`PutHalfOK` and `DoWriteOK`: adding at most a word to a scratch that holds less
than one leaves less than one, clean above, and advances the position by exactly
the length of the value. `NeverOverruns` follows: position and total are within
the words, so a partial word still has its place. `UnusableFails` is the
configuration part of the same invariant.

The same module proves what the bits are. `Appended` says that a
piece of `do_write` leaves the bits before its position alone and puts the
value's at it, whether a bit is still in the scratch or has gone to the words
with a flush; it composes over the halves of a value, the two prefixes of a string
and the iterations of a loop. `ContentInv`, that the stream's bits are those of
`written`, is therefore inductive next to `WriterInv`, and `StreamCorrect` proves
`StreamIsWritten`. `ImplementsSink` proves that every step of the writer is one
of `BitSink` or a stutter (`RefinesSink`).

It proves `MeasureCorrect` too: the measure is exact, under the
same `NoWrap`. A measured step is a step of the writer (`MeasuredIsWriter`), so
`WriterInv` holds; with it, `MeasureIsExact` is inductive. `PrefixesAgree` shows
that the two ways to choose a prefix are one, for every length and width of a
byte. `MeasureSufficesCorrect` proves `MeasureSuffices`, under `StringsFit` too:
`NoWrap` does not bound the strings that are refused, whose measure might wrap. A
write that an open writer refuses does not fit the total, and has been measured
(`RefusedIsMeasured`), so that the bytes of the measure exceed the total.

`BitStreamReaderProofs` proves all six invariants of the reader, for any width
of a byte, buffers of any content, ranges, sizes and lengths, again under
`NoWrap`: `TypeCorrect`, `CursorsCorrect`, `NeverOverreads`, `ScratchCorrect`,
`LoopsFit`, `ReadsThePrefix`. The invariant `ReaderInv` has the same parts as the
writer's, and in `StreamInv` the one that matters: the scratch is the slice of
the buffer at `Position`, which lies within the logical length, and the bits
taken are the slice before it; while the stream has not failed the two meet.
`FetchWordOK` shows that a word is loaded only if its first bit is within the
buffer, and a buffer is whole words; `TakeOK` that a take returns the next slice,
in one half or two. That a length prefix is a number needs induction over its
recursive definition (`NumberFunction`, `NumberTyped`). The library's induction
theorems take a predicate, which the provers cannot instantiate; the lemma
`SetInduction`, in `NatLemmas`, states induction for a set and derives it from the well-foundedness
of the finite subsets of the naturals.

`ImplementsSource` proves `RefinesSource`: a lemma per operation maps it to a step
of `BitSource`. A read gives the bits between the old and the new position, which
`ReadsThePrefix` places at the front of the buffer; a string that fails after its
length prefix maps to a failure that gives the prefix; a peek maps to a stutter, or
to a failure that gives nothing.

`RangeCodecProofs` proves `RoundTripCorrect` for every type of an even number of
values, signed or not: the wrapped offset is the distance of the value from
`min`, and the casts of the reader differ from that distance by multiples of the
modulus, which the last cast takes away. `TypeCorrect`, `FitsItsBitsCorrect` and
`ReadsWhatIsSentCorrect` need types of 2^w values (`TypesAssumption`) and powers
of two, of which the provers know nothing. `NatLemmas` derives what is needed of
them, that a power doubles, grows and is monotone, from the library's theorem
that a set of n elements has 2^n subsets (`FS_SUBSET`, whose own proof takes
2^(n+1) = 2^n + 2^n as a fact of arithmetic). `WidthExists` then gives
the width of a range, so the `CHOOSE` of `Bits` is a width, and `BitsInv` adds to
`CodecInv` that what was read is the conversion of what is on the wire, of any
origin.

`TransportProofs` proves two properties of the composition's sizes, under `NoWrap` and
`PayloadsCovered` (the writer may be opened over every payload that `allocate`
returns and the reader over every message, none of which has 2^32 bits, as the
`static_assert` at `src/bit_stream.cpp:20` has it): `UsedIsWithinPayloadCorrect` and `RoundingsCorrect`. Every step of
`Transport` is a step of the writer or leaves it alone, so `WriterInv` comes with
it. To it `LetterInv` adds the payload of each phase: opened, it holds what was
measured; written, the writer's words are the block and its total at most the
size; sent, what a message carries is the length rounded up to words, and the
length was at most the size. Nothing in `NetworkStep` touches a size.

`LetterPayloadProofs` is about the payloads of letters, and needs neither
hypothesis. A second instance of Multicast, with its theorems (`SP!`), stands next
to `S!`; the definitions of the two agree one by one (`SameHeap`, `SameCalls`,
`SameMessages`), and every step of `Transport` is one of `Multicast` or leaves it
alone (`MulticastSteps`). `ImplementsMulticast` concludes that the whole library, as
a program uses it, implements `Multicast`, for any number of connections and
payloads, and `LetterPayloadsSafe` that exact counts, no dangling reference, no
leak and sizes that fit carry over to letters. `PayloadIsTheLettersCorrect` adds the
phases: with `StageInv`, which says what the sender holds in each phase and that no
message is in use outside `"sent"`, an allocated payload can only be that of a
letter that is being written or sent. These three are theorems only: a run with
several payloads and messages of a letter is out of TLC's reach, and with one of
each they say no more than the properties of `multicast`.

`LetterProofs` proves the rest of the properties of the message path, under the
same two hypotheses: `TransportTypeCorrect`, `PaddingIsZeroCorrect`,
`StoredIsReadCorrect`, `PeekIsSentCorrect` and `ImplementsLetters`, for any
writes, payloads of any size, any number of messages and hosts of either byte
order. The receiver's reader is a second instance of the reader's module of
theorems (`RP!`), whose buffers are all messages of whole words; `SameReader`
shows that `Transport`'s reader takes its steps, so `RP!ReaderInv` comes with
`WriterInv` and `ContentInv`. The inductive invariant is `LetterOK`:

* `TransportInv`, the sizes of `TransportProofs`, and `ContentInv`, the bits of the
  writer;
* `LogInv`: every logged write lies where it ends, as the bits a read will look
  for. A string's write is its prefix, its length and its characters, and the
  length fits the width that the writer chose;
* `PaddedInv`: once the stream is closed its last word ends with zeros. This is
  the clean scratch at the moment of the final flush, and lasts because a closed
  stream refuses writes;
* `CarriedInv`: what is sent is all that the writer used and lies in its words,
  all messages of the letter have that size, and what arrives is those words.
  `SwapTwice` is the step that matters: the bytes of a word, turned round on one
  host and again on the other, or on neither, are where they were. Two hosts of
  different order lay a word out differently, and swap once each;
* `MarksInv`: the n-th successful read ends where the n-th write ends, as far as
  the writes were stored, and none of these reads fails.

`MarksInv` is inductive only next to all the others: a read begins where the last
one ended (`ReaderInv`), finds the bits of the message, which are the writer's
(`CarriedInv`, `ContentInv`), which are those of the write (`LogInv`), and takes
exactly as many. `IntegerRead`, `BytesRead`, `StringRead` and `PeekFinds` say so for
each operation. The numbers of a length and of its prefix survive the way because
reading n bits inverts writing n bits (`NumberOfBits`), an induction over the
recursive definition of the one and the divisions of the other.

`ImplementsLetters` needs two facts more. `DoneInv`: of the reads, only the last
may still be going on. `SeenInv` follows from it and `LetterOK`, and says what the
mapping shows: how many writes are finished, stored and read, which depends on
`left * unit` of the writer's and of the reader's loop only. Every step is then one
of `Letters`: a write, or the last iteration of one, is `Compose`; the final
flush closes; `Receive` is `Arrive`; a read, or the last iteration of one, is
`Read`; `Rewrite` and `NextLetter` start over; what measurer, allocation, multicast
and GNS do is a stutter (`StepSeen`).

What the theorems assume of the constants: `ReadAssumption` (as in the reader);
`WidthsAssumption` (a byte has two bits or more, and the widest prefix holds every
`size_type`, as 64 bits hold 32); `AgreedAssumption` (the receiver's `max_length`
admits the strings that are sent; two programs that disagree on that have a string
refused, whatever the library does). TLC evaluates all of them,
and the hypotheses `NoWrap`, `StringsFit` and `PayloadsCovered` too, on the
instances of the passing runs (`TheoremsApply`), so that no theorem is about
constants that do not exist; only `writer_wrap` and `reader_wrap` leave `NoWrap`, on
purpose.

Only model-checked: `SentIsFreed`, because liveness under fairness is out of the
prover's reach, and with it that a released message ever frees its payload. All
other properties of the passing runs are theorems.

## Not modelled

* The fields of messages that are copied (connection, flags, lane, user data) and
  the results array of a send: GNS decides what is in them.
* What GNS does between two hosts, beyond that a message arrives with its bytes or
  does not: its order, retransmission and connections are its own.
* The flat C API (`src/*_flat.cpp` and their headers). Each function is one call,
  one `new` or one `delete`, with the arguments passed on: it has no state and no
  control of its own that a model could get wrong, only names and types.
* The concepts and macros, which exist at compile time only; declarations and
  getters of the three headers that no action depends on.
* The signedness of `char`: strings are encoded relative to the minimum of their
  character type, which hosts may disagree on. In the models characters are the
  bits that are written.
* Null payloads given to a writer or a send: the code dereferences them, and the
  caller must check, as `include/nalchi/shared_payload.hpp` says.

## Plan

Done: payloads and multicast, the writer, the measurer, the reader, the encoding
of integers, and the message path that composes them; the proofs of all
invariants and action properties of the components and of the message path, and of the
refinements of `PayloadOwnership`, `BitSink`, `BitSource` and `Letters`. Next, in this
order:

1. The integers of a letter: the offset that `RangeCodec` puts on the wire and the
   bits that the writer takes are one value, so that `RoundTrip` and
   `StoredIsRead` together say that the integers that are read are those that were
   written.
2. Shorter proofs: the cases of `NetworkCarried` and `NetworkKeepsInv` follow the
   same split of the steps of `Multicast`.
