------------------------ MODULE TransportProperties --------------------------
(***************************************************************************)
(* What a program that uses the whole library may rely on: properties that *)
(* no component has alone.                                                 *)
(***************************************************************************)
EXTENDS Transport, FiniteSets

\* The parameters of reset_with() are not restricted to fewer payloads than
\* allocate() returns, nor to fewer lengths than messages have, and no payload
\* has 2^32 bits ("too small to represent incoming GNS message in number of
\* bits" is what a static_assert of bit_stream.cpp rules out).
PayloadsCovered ==
    /\ \A s \in 1 .. MaxSend : /\ S!CeilToWord(s) \div WordBytes \in WordCounts
                               /\ s \in LogicalBytes
    /\ \A n \in WordCounts : n * WordBytes \in LogicalBytes /\ n * WordBits < SizeMod

\* The bits that are in the payload's words, and not in the writer's scratch:
\* all of them after the final flush, otherwise those of whole words.
Stored == IF finalFlushed THEN Len(written)
          ELSE (Len(written) \div WordBits) * WordBits

\* How many of the first writes of the letter end within the first n bits.
WritesWithin(n) == Cardinality({i \in DOMAIN log : log[i].end <= n})

\* The bits cut at the ends of the first n writes, or reads.
Cut(stream, ends, n) ==
    [i \in 1 .. n |-> SubSeq(stream, IF i = 1 THEN 1 ELSE ends[i - 1] + 1, ends[i])]

Ends == [i \in DOMAIN log |-> log[i].end]

\* The reads that are over.
ReadsDone == Cardinality({i \in DOMAIN marks : marks[i] <= Len(in.taken)})

-----------------------------------------------------------------------------
\* Type invariant of the letter's journey.
TransportTypeOK ==
    /\ phase \in Phases
    /\ plan \in Seq(Call)
    /\ log \in Seq([call : Call, end : Nat])
    /\ sentLength \in 0 .. MaxSend
    /\ inbox.size \in -1 .. MaxSend
    /\ inbox.words \in Seq(Bit)
    /\ marks \in Seq(Nat)

\* The bytes the writer says it used are never more than the payload that was
\* allocated for the measure: the program may always send them
\* (add_to_message does not compare the length with the payload).
UsedIsWithinPayload ==
    phase = "write" => WriterUsedBytes <= S!Size(payload[Sender])

\* The rounding of allocate(), of reset_with(shared_payload) and of
\* add_to_message() agree: the words of the writer lie in the block, and what
\* is sent is whole words, and words of the writer.
RoundingsAgree ==
    /\ phase = "write" => WordBytes * wordsSize <= bytes[payload[Sender]]
    /\ \A m \in S!Messages :
         msgState[m] # "free" => /\ msgSize[m] <= WordBytes * wordsSize
                                 /\ msgSize[m] % WordBytes = 0

\* A letter that is closed and sent with used_bytes() holds what was written,
\* then zeros to its end: nothing of what the heap, an earlier letter or an
\* earlier attempt left in the payload leaves the process.
PaddingIsZero ==
    phase = "read" /\ finalFlushed /\ sentLength = WriterUsedBytes =>
      rWords = written \o [i \in 1 .. Len(rWords) - Len(written) |-> 0]

\* Reads that mirror the writes succeed, for every write that was stored
\* before the letter was sent: the message is long enough, and no read takes
\* more or fewer bits than the write it mirrors.  (A letter without a single
\* bit is sent as a message without words, and its reader has failed.)
StoredIsRead ==
    phase = "read" /\ written # <<>> =>
      /\ rFail => Len(marks) >= WritesWithin(Stored)
      /\ \A i \in DOMAIN marks : i <= WritesWithin(Stored) => marks[i] = log[i].end

\* A peek at a string that was stored tells the length the sender wrote, also
\* when its prefix lies in two words.
PeekIsSent ==
    peeked # 0 /\ Len(marks) < WritesWithin(Stored) => peeked = NextRead.len

-----------------------------------------------------------------------------
\* The letters that the program sees: those of Letters, whatever the order of
\* the bytes on either host.
Finished == WritesWithin(Len(written))

\* The reads of what was stored that are over.
Over == IF ReadsDone < WritesWithin(Stored) THEN ReadsDone ELSE WritesWithin(Stored)

Draft == Cut(written, Ends, Finished)
Mail == IF phase = "read" THEN Cut(written, Ends, WritesWithin(Stored)) ELSE <<>>
Got == Cut(in.taken, marks, Over)

Letter == INSTANCE Letters WITH draft <- Draft, closed <- finalFlushed,
                                arrived <- phase = "read", mail <- Mail, got <- Got

RefinesLetters == Letter!Spec
=============================================================================
