------------------------------ MODULE Transport ------------------------------
(***************************************************************************)
(* The way of one letter after another through the whole library: the      *)
(* program measures its writes, allocates a payload of that size, writes   *)
(* into it, flushes, and sends it; GNS carries the bytes; the receiver     *)
(* reads them.  Measurer, writer, payload, multicast and reader are the    *)
(* modules of those names, and this one adds the program that calls them   *)
(* and the network.  The words the writer fills are those of the payload   *)
(* (out.words), and nobody writes to them once they are sent.              *)
(***************************************************************************)
EXTENDS MeasuredWriting

CONSTANTS Sender, Payloads, NoPayload, MaxSend, FlagMask, \* see Multicast
          MaxMessages,                        \* bound: connections of a send
          Ranges, MaxLengths, LengthMod,      \* see BitStreamReader
          Data,      \* what bytes and strings are made of, the last piece first
          MaxCalls   \* bound: writes that are measured for a letter

ASSUME MaxCallsAssumption == MaxCalls \in Nat
\* As in Multicast, for the sizes of this program.
ASSUME SendAssumption == /\ MaxSend \in Nat /\ MaxSend % WordBytes = 0
                         /\ FlagMask \in Nat /\ MaxSend < FlagMask
                         /\ MaxMessages \in Nat
                         /\ NoPayload \notin Payloads
ASSUME DataAssumption == Data \in Seq(Bit)
\* As in BitStreamReader.
ASSUME ReadAssumption == /\ LengthMod \in Nat \ {0}
                         /\ MaxLengths \subseteq Nat
                         /\ Ranges \subseteq [bits : 1 .. ScratchBits, span : Nat]
                         /\ \A r \in Ranges : 2 ^ (r.bits - 1) <= r.span /\ r.span < 2 ^ r.bits
\* A byte has eight bits, size_type and ssize_type are as wide as each other,
\* and the widest prefix, a u64, holds every size_type.
ASSUME WidthsAssumption == /\ ByteBits >= 2
                           /\ SizeMod <= LengthMod
                           /\ SizeMod <= 2 ^ (8 * ByteBits)
\* The two programs agree on the strings they exchange.
ASSUME AgreedAssumption == \A max \in MaxLengths, len \in StringLens : len <= max

VARIABLES live, bytes, sizeField, refCount, pc, payload, todo, length,
          msgState, msgPayload, msgSize, reading,              \* of Multicast
          in, rWords, rTotalBits, rInitFail, rFail, rLeft, rUnit,
          peeked,                                              \* of the reader
          phase,      \* where the letter is
          plan,       \* the writes that were measured
          log,        \* history: the accepted writes, and where they end
          sentLength, \* logical_bytes_length of the send
          inbox,      \* the message that arrived
          marks       \* history: where the successful reads end

S == INSTANCE Multicast WITH Callers <- {Sender}, RequestSizes <- 0 .. MaxSend,
                             Lengths <- 0 .. MaxSend, WeakMemory <- FALSE

R == INSTANCE BitStreamReader WITH
       words <- rWords, totalBits <- rTotalBits, initFail <- rInitFail,
       fail <- rFail, left <- rLeft, unit <- rUnit, Buffers <- {}

writerVars == <<vars, measured>>
netVars == <<live, bytes, sizeField, refCount, pc, payload, todo, length,
             msgState, msgPayload, msgSize, reading>>
readerVars == <<in, rWords, rTotalBits, rInitFail, rFail, rLeft, rUnit, peeked>>
letterVars == <<phase, plan, log, sentLength, inbox, marks>>
transportVars == <<writerVars, netVars, readerVars, letterVars>>

Phases == {"plan", "open", "write", "sent", "read", "over"}

\* The reads and writes a program may do, as the two sides know them.
Call == [kind : {"integer"}, range : Ranges]
        \cup [kind : {"bytes"}, size : ByteCounts]
        \cup [kind : {"string"}, len : StringLens, charBytes : CharBytes]

NoMessage == [size |-> -1, words |-> <<>>]

-----------------------------------------------------------------------------
(* The sender: measure and allocate. *)

MeasureCall(call) ==
    \/ call.kind = "integer" /\ Measure(call.range.bits)
    \/ call.kind = "bytes" /\ Measure(ByteBits * call.size)
    \/ call.kind = "string" /\ MeasureString(call.len, call.charBytes)

PlanCall(call) ==
    /\ phase = "plan"
    /\ Len(plan) < MaxCalls    \* bound MaxCalls
    /\ MeasureCall(call)
    /\ plan' = Append(plan, call)
    /\ UNCHANGED <<vars, netVars, readerVars, phase, log, sentLength, inbox, marks>>

Allocate ==
    /\ phase = "plan"
    /\ S!Allocate(Sender)
    /\ sizeField'[payload'[Sender]] = UsedBytes
    /\ phase' = "open"
    /\ UNCHANGED <<writerVars, readerVars, plan, log, sentLength, inbox, marks>>

\* allocate() returned a null payload.
GiveUp ==
    /\ phase = "plan"
    /\ plan # <<>>
    /\ ~S!CanAllocate(UsedBytes)
    /\ phase' = "over"
    /\ UNCHANGED <<writerVars, netVars, readerVars, plan, log, sentLength, inbox, marks>>

\* The length of the block in words, by the field that holds its size.
PayloadWords(p) == S!CeilToWord(S!Size(p)) \div WordBytes

\* reset_with(shared_payload, logical_bytes_length): the flag, then the words.
OpenWriter ==
    /\ phase = "open"
    /\ S!UseBitStream(Sender)
    /\ ResetWith(PayloadWords(payload[Sender])', FALSE, UsedBytes)
    /\ phase' = "write"
    /\ UNCHANGED <<measured, readerVars, plan, log, sentLength, inbox, marks>>

-----------------------------------------------------------------------------
(* The sender: write and send. *)

\* used_bytes() of the writer.
WriterUsedBytes == (out.usedBits + ByteBits - 1) \div ByteBits

Writing == phase = "write" /\ UNCHANGED <<measured, netVars, readerVars, phase, plan,
                                          sentLength, inbox, marks>>

InRange(v, range) == Len(v) = range.bits /\ R!Number(v) <= range.span

WriteCall(call) ==
    /\ \/ /\ call.kind = "integer"
          /\ \E v \in Values : InRange(v, call.range) /\ Write(v)
       \/ call.kind = "bytes" /\ WriteBytes(call.size)
       \/ call.kind = "string" /\ WriteString(call.len, call.charBytes)
    /\ log' = IF fail' THEN log
              ELSE Append(log, [call |-> call, end |-> Len(written') + left' * unit'])

\* The program does the writes it measured.
WritePlanned == /\ Writing
                /\ Len(log) < Len(plan)
                /\ WriteCall(plan[Len(log) + 1])

\* Or one more, that may still find room, or be refused.
WriteUnmeasured == /\ Writing
                   /\ Len(log) = Len(plan)
                   /\ \E call \in Call : WriteCall(call)

WriteLoop == /\ Writing
             /\ PutNext
             /\ written' = written \o SubSeq(Data, (left - 1) * unit + 1, left * unit)
             /\ UNCHANGED log

Flush == Writing /\ FlushFinal /\ UNCHANGED log

\* The program writes the letter again, over the one it closed or spoiled.
Rewrite == /\ Writing
           /\ fail \/ finalFlushed
           /\ Restart
           /\ log' = <<>>

\* The program may send before it has written all, and without the final
\* flush; it passes the bytes the writer used, or the size of the payload.
Send ==
    /\ phase = "write"
    /\ Idle
    /\ \E l \in {WriterUsedBytes, S!Size(payload[Sender])} :
         /\ S!Unicast(Sender) \/ S!Multicast(Sender)
         /\ pc'[Sender] = "setup" => length'[Sender] = l
         /\ sentLength' = l
    /\ phase' = "sent"
    /\ UNCHANGED <<writerVars, readerVars, plan, log, inbox, marks>>

Discard ==
    /\ phase \in {"open", "write"}
    /\ Idle
    /\ S!Discard(Sender)
    /\ phase' = "over"
    /\ UNCHANGED <<writerVars, readerVars, plan, log, sentLength, inbox, marks>>

-----------------------------------------------------------------------------
(* The network. *)

\* The bytes of a word in the other order.
ByteSwap(w) == [i \in 1 .. WordBits |->
    w[(WordBytes - 1 - (i - 1) \div ByteBits) * ByteBits + ((i - 1) % ByteBits) + 1]]

Endian == {"little", "big"}

\* Mutant: the words are stored and loaded as the host has them.
NeverSwapped(host, w) == w

\* std::byteswap, on big-endian hosts, before a store and after a load.
Swapped(host, w) == IF host = "big" THEN ByteSwap(w) ELSE w

\* A word as the bytes in a host's memory, from the lowest address, and back.
Bytes(host, w) == IF host = "big" THEN ByteSwap(w) ELSE w

\* Word k of the payload.  What lies past the block would be anything:
\* RoundingsAgree says that it is not sent.
PayloadWord(k) == [i \in 1 .. WordBits |->
    IF k * WordBits + i - 1 \in DOMAIN out.words THEN out.words[k * WordBits + i - 1] ELSE 1]

\* The word that the reader of one host loads from the bytes of another's.
Carried(from, to, w) == Swapped(to, Bytes(to, Bytes(from, Swapped(from, w))))

\* The whole words of a message.
WordsOf(size, from, to) ==
    [i \in 1 .. (size \div WordBytes) * WordBits |->
        Carried(from, to, PayloadWord((i - 1) \div WordBits))[((i - 1) % WordBits) + 1]]

\* The steps of multicast(), of SendMessages and of the release callbacks.
NetworkStep ==
    /\ phase = "sent"
    /\ \/ S!SetupMessage(Sender)
       \/ S!SendReturns(Sender)
       \/ \E m \in S!Messages : \/ S!Submit(m)
                                \/ S!BeginRead(m)
                                \/ S!EndRead(m)
                                \/ S!DropReference(m)
                                \/ S!DeallocateLast(m)
    /\ UNCHANGED <<writerVars, readerVars, letterVars>>

\* The bytes that were read through a message reach the receiver.
Deliver(m) ==
    /\ phase = "sent"
    /\ inbox = NoMessage
    /\ S!EndRead(m)
    /\ \E from, to \in Endian :
         inbox' = [size |-> msgSize[m], words |-> WordsOf(msgSize[m], from, to)]
    /\ UNCHANGED <<writerVars, readerVars, phase, plan, log, sentLength, marks>>

\* The receiver's memory is its own: that it reads after the sender is done
\* with its messages makes no difference to either.
Settled == pc[Sender] = "idle" /\ \A m \in S!Messages : msgState[m] = "free"

Lost == /\ phase = "sent"
        /\ Settled
        /\ inbox = NoMessage
        /\ phase' = "over"
        /\ UNCHANGED <<writerVars, netVars, readerVars, plan, log, sentLength, inbox, marks>>

-----------------------------------------------------------------------------
(* The receiver. *)

\* A reader over the words of the message, as long as the message.
Receive ==
    /\ phase = "sent"
    /\ Settled
    /\ inbox # NoMessage
    /\ R!ResetWith(inbox.words, FALSE, inbox.size)
    /\ phase' = "read"
    /\ UNCHANGED <<writerVars, netVars, plan, log, sentLength, inbox, marks>>

Reading == phase = "read" /\ UNCHANGED <<writerVars, netVars, phase, plan, log,
                                         sentLength, inbox>>

\* The receiver reads what the sender wrote, in the same order.
NextRead == log[Len(marks) + 1].call

ReadCall ==
    /\ Reading
    /\ Len(marks) < Len(log)
    /\ \/ NextRead.kind = "integer" /\ R!Read(NextRead.range)
       \/ NextRead.kind = "bytes" /\ R!ReadBytes(NextRead.size)
       \/ /\ NextRead.kind = "string"
          /\ \E max \in MaxLengths : R!ReadString(max, NextRead.charBytes)
    /\ marks' = IF rFail' THEN marks
                ELSE Append(marks, Len(in'.taken) + rLeft' * rUnit')

\* Before a string it may look how long it is.
Peek ==
    /\ Reading
    /\ Len(marks) < Len(log)
    /\ NextRead.kind = "string"
    /\ R!PeekStringLength
    /\ UNCHANGED marks

ReadOn == Reading /\ (R!ReadNext \/ R!PeekReturned) /\ UNCHANGED marks

-----------------------------------------------------------------------------
\* The next letter, with the same measurer, writer and reader.
NextLetter ==
    /\ phase = "over" \/ (phase = "read" /\ R!Idle)
    /\ Reset /\ MeasureRestart /\ R!Reset
    /\ phase' = "plan"
    /\ plan' = <<>> /\ log' = <<>> /\ marks' = <<>>
    /\ sentLength' = 0
    /\ inbox' = NoMessage
    /\ UNCHANGED netVars

TransportInit ==
    /\ MeasuredInit /\ S!Init /\ R!Init
    /\ phase = "plan"
    /\ plan = <<>> /\ log = <<>> /\ marks = <<>>
    /\ sentLength = 0
    /\ inbox = NoMessage

TransportNext ==
    \/ \E call \in Call : PlanCall(call)
    \/ Allocate \/ GiveUp \/ OpenWriter
    \/ WritePlanned \/ WriteUnmeasured \/ WriteLoop \/ Flush \/ Rewrite
    \/ Send \/ Discard
    \/ NetworkStep
    \/ \E m \in S!Messages : Deliver(m)
    \/ Lost
    \/ Receive \/ ReadCall \/ Peek \/ ReadOn
    \/ NextLetter

TransportSpec == TransportInit /\ [][TransportNext]_transportVars
=============================================================================
