------------------------------ MODULE BitStreams ------------------------------
(***************************************************************************)
(* The bit streams under both generations of compressed data: PUTBITS(),   *)
(* SKIP() and GETBITS() of original/UC2_source/src/BITIO.CPP, with the      *)
(* macros of NUKE.CPP that repeat SKIP(), and bits_out and bits of          *)
(* lib/src/compress.c and decompress.c.  A stream is a sequence of 16-bit   *)
(* words, each first bit uppermost; the registers are kept as they are in   *)
(* the source, because all that can go wrong is at the edges of a word, of  *)
(* a buffer, or of what a reader returns.                                   *)
(***************************************************************************)
EXTENDS Integers, Sequences

CONSTANTS Fields,    \* sequences of [value, width], what is written and read back
          OBUFS,     \* bytes of an output buffer
          IBUFS,     \* bytes of the original's input buffer, of 2 at least
          CHUNK      \* bytes of the library's input buffer, of 2 at least

VARIABLES fields,    \* what is still to be written; when reading, to be read
          program,   \* who writes and who reads: "library" or "original"
          word, room,  \* the output word and the bits free in it
          buffer,    \* bytes not passed on yet
          stream,    \* bytes written, in reading those not read yet
          bits, have,  \* what is left of the input word, and how many bits
          next13,    \* the original's lookahead
          got,       \* values read, in the order of the fields
          written,   \* the fields that were written
          lost,      \* bytes cut off the end of the stream
          phase      \* "Put", "Open", "Get", "Done" or "Failed"
streams == <<fields, program, word, room, buffer, stream, bits, have, next13, got, written, lost, phase>>

Programs == [writer : {"library", "original"}, reader : {"library", "original"}]
WordMax == 65536
Low(w) == w % 256
High(w) == w \div 256
Bytes(w) == <<Low(w), High(w)>>
ShiftLeft(v, n) == (v * 2^n) % WordMax
ShiftRight(v, n) == v \div 2^n

StreamsInit ==
    /\ fields \in Fields
    /\ program \in Programs
    /\ word = 0
    /\ room = 16
    /\ buffer = <<>>
    /\ stream = <<>>
    /\ bits = 0
    /\ have = 0
    /\ next13 = 0
    /\ got = <<>>
    /\ written = fields
    /\ lost = 0
    /\ phase = "Put"

\* PutWord() passes a full buffer on at once, bitsout_emit_word() before the next word.
PutWord(state, w) ==
    LET full == state.buffer \o Bytes(w)
    IN  IF Len(full) = OBUFS THEN [buffer |-> <<>>, stream |-> state.stream \o full]
        ELSE [buffer |-> full, stream |-> state.stream]
EmitWord(state, w) ==
    IF Len(state.buffer) + 2 > OBUFS THEN [buffer |-> Bytes(w), stream |-> state.stream \o state.buffer]
    ELSE [buffer |-> state.buffer \o Bytes(w), stream |-> state.stream]
Output == [buffer |-> buffer, stream |-> stream]
Pass(state) ==
    /\ buffer' = state.buffer
    /\ stream' = state.stream

\* PUTBITS(): more than enough, less than enough, or exactly enough space.
PUTBITS(val, len) ==
    \/ /\ len < room
       /\ room' = room - len
       /\ word' = word + ShiftLeft(val, room - len)
       /\ Pass(Output)
    \/ /\ len > room
       /\ room' = room + 16 - len
       /\ word' = ShiftLeft(val, room + 16 - len)
       /\ Pass(PutWord(Output, word + ShiftRight(val, len - room)))
    \/ /\ len = room
       /\ room' = 16
       /\ word' = 0
       /\ Pass(PutWord(Output, word + val))

bitsout_put(val, nbits) ==
    LET second == nbits - room
        whole == word + ShiftLeft(val, room - nbits)
    IN  \/ /\ nbits < room
           /\ word' = whole
           /\ room' = room - nbits
           /\ Pass(Output)
        \/ /\ nbits = room
           /\ word' = 0
           /\ room' = 16
           /\ Pass(EmitWord(Output, whole))
        \/ /\ nbits > room
           /\ word' = ShiftLeft(val, 16 - second)
           /\ room' = 16 - second
           /\ Pass(EmitWord(Output, word + ShiftRight(val, second)))

PutField ==
    /\ phase = "Put"
    /\ fields # <<>>
    /\ IF program.writer = "original" THEN PUTBITS(Head(fields).value, Head(fields).width)
       ELSE bitsout_put(Head(fields).value, Head(fields).width)
    /\ fields' = Tail(fields)
    /\ UNCHANGED <<program, bits, have, next13, got, written, lost, phase>>

\* FlushBitsOut() and bitsout_finish(): a begun word is padded with zeroes.
FlushBitsOut ==
    /\ phase = "Put"
    /\ fields = <<>>
    /\ LET last == IF room = 16 THEN Output
                   ELSE IF program.writer = "original" THEN PutWord(Output, word) ELSE EmitWord(Output, word)
       IN  stream' = last.stream \o last.buffer
    /\ buffer' = <<>>
    /\ word' = 0
    /\ room' = 16
    /\ fields' = written
    /\ phase' = "Open"
    /\ UNCHANGED <<program, bits, have, next13, got, written, lost>>

\* The file is cut off: of the two readers only the library's is to notice.
Truncate ==
    /\ phase = "Open"
    /\ program.reader = "library"
    /\ lost = 0
    /\ \E n \in 1..2 : /\ n <= Len(stream)
                       /\ stream' = SubSeq(stream, 1, Len(stream) - n)
                       /\ lost' = n
    /\ UNCHANGED <<fields, program, word, room, buffer, bits, have, next13, got, written, phase>>
------------------------------------------------------------------------------
(* The original reads whole buffers; behind the end of the data a buffer   *)
(* keeps what it held.  GetWord() refills with the last word of a buffer.  *)
At(b, i) == IF i <= Len(b) THEN b[i] ELSE 0
Refilled(b, data) ==
    [i \in 1..IBUFS |-> IF i <= Len(data) THEN data[i] ELSE At(b, i)]
Rest(data, n) == SubSeq(data, n + 1, Len(data))
\* A buffer as GetWord() sees it: its words not read yet come first.
GetWord(state) ==
    LET w == state.buffer[state.ptr + 1] + 256 * state.buffer[state.ptr + 2]
    IN  IF state.ptr = IBUFS - 2
        THEN [state EXCEPT !.bits = w, !.ptr = 0, !.buffer = Refilled(@, state.stream), !.stream = Rest(@, IBUFS)]
        ELSE [state EXCEPT !.bits = w, !.ptr = @ + 2]

\* Faulty variant: the bits of a used-up word are not cleared.
SKIPUnclean(s, len) ==
    LET moved == ShiftLeft(s.next13, len) % 8192
        fresh == GetWord(s)
        left == 16 - len + s.have
    IN  IF s.have < len
        THEN [fresh EXCEPT !.next13 = moved + ShiftLeft(s.bits, len - s.have) + ShiftRight(fresh.bits, left),
                           !.have = left]
        ELSE IF s.have > len
        THEN [s EXCEPT !.next13 = moved + ShiftRight(s.bits, s.have - len), !.have = @ - len,
                       !.bits = @ % 2^(s.have - len)]
        ELSE [fresh EXCEPT !.next13 = moved + s.bits, !.have = 16]

\* SKIP(): the lookahead moves on by len bits, of this word and the next one.
SKIP(s, len) ==
    LET moved == ShiftLeft(s.next13, len) % 8192
        fresh == GetWord(s)
        left == 16 - len + s.have
    IN  IF s.have < len
        THEN [fresh EXCEPT !.next13 = moved + ShiftLeft(s.bits, len - s.have) + ShiftRight(fresh.bits, left),
                           !.have = left, !.bits = @ % 2^left]
        ELSE IF s.have > len
        THEN [s EXCEPT !.next13 = moved + ShiftRight(s.bits, s.have - len), !.have = @ - len,
                       !.bits = @ % 2^(s.have - len)]
        ELSE [fresh EXCEPT !.next13 = moved + s.bits, !.have = 16]

\* GETBITS(): 13 bits at most come from the lookahead, wider fields in two parts.
RECURSIVE GETBITS(_, _)
GETBITS(s, len) ==
    LET upper == GETBITS(s, len - 8)
        lower == GETBITS(upper.state, 8)
    IN  IF len < 14 THEN [value |-> ShiftRight(s.next13, 13 - len), state |-> SKIP(s, len)]
        ELSE [value |-> upper.value * 256 + lower.value, state |-> lower.state]

Registers == [bits |-> bits, have |-> have, next13 |-> next13, ptr |-> room, buffer |-> buffer, stream |-> stream]
Load(s) ==
    /\ bits' = s.bits
    /\ have' = s.have
    /\ next13' = s.next13
    /\ room' = s.ptr
    /\ buffer' = s.buffer
    /\ stream' = s.stream

InitBitsIn ==
    /\ phase = "Open"
    /\ program.reader = "original"
    /\ LET first == [Registers EXCEPT !.buffer = Refilled(<<>>, stream), !.stream = Rest(@, IBUFS), !.ptr = 0]
       IN  Load(SKIP([GetWord(first) EXCEPT !.have = 16, !.next13 = 0], 13))
    /\ phase' = "Get"
    /\ UNCHANGED <<fields, program, word, got, written, lost>>

GetOriginal ==
    /\ phase = "Get"
    /\ program.reader = "original"
    /\ fields # <<>>
    /\ LET read == GETBITS(Registers, Head(fields).width)
       IN  Load(read.state) /\ got' = Append(got, read.value)
    /\ fields' = Tail(fields)
    /\ UNCHANGED <<program, word, written, lost, phase>>
------------------------------------------------------------------------------
\* bits_init(); a reader may return any number of bytes, none at the end of the data.
bits_init ==
    /\ phase = "Open"
    /\ program.reader = "library"
    /\ phase' = "Get"
    /\ UNCHANGED <<fields, program, word, room, buffer, stream, bits, have, next13, got, written, lost>>

\* bits_feed(): until two bytes are there, then a word of them; the end of the data fails.
Needs == have < Head(fields).width
bits_read ==
    /\ phase = "Get"
    /\ program.reader = "library"
    /\ fields # <<>>
    /\ Needs
    /\ Len(buffer) < 2
    /\ \E r \in 1..CHUNK - Len(buffer) :
          /\ r <= Len(stream)
          /\ buffer' = buffer \o SubSeq(stream, 1, r)
          /\ stream' = Rest(stream, r)
    /\ UNCHANGED <<fields, program, word, room, bits, have, next13, got, written, lost, phase>>

bits_truncated ==
    /\ phase = "Get"
    /\ program.reader = "library"
    /\ fields # <<>>
    /\ Needs
    /\ Len(buffer) < 2
    /\ stream = <<>>
    /\ phase' = "Failed"
    /\ UNCHANGED <<fields, program, word, room, buffer, stream, bits, have, next13, got, written, lost>>

\* bits_get(): the register is as wide as two words, and its used bits are masked out.
bits_get ==
    /\ phase = "Get"
    /\ program.reader = "library"
    /\ fields # <<>>
    /\ ~Needs \/ Len(buffer) >= 2
    /\ LET n == Head(fields).width
           held == IF Needs THEN (bits % WordMax) * WordMax + buffer[1] + 256 * buffer[2] ELSE bits
           width == IF Needs THEN have + 16 ELSE have
       IN  /\ got' = Append(got, (held \div 2^(width - n)) % 2^n)
           /\ bits' = held % 2^(width - n)
           /\ have' = width - n
           /\ buffer' = IF Needs THEN Rest(buffer, 2) ELSE buffer
    /\ fields' = Tail(fields)
    /\ UNCHANGED <<program, word, room, stream, next13, written, lost, phase>>

EndOfFields ==
    /\ phase = "Get"
    /\ fields = <<>>
    /\ phase' = "Done"
    /\ UNCHANGED <<fields, program, word, room, buffer, stream, bits, have, next13, got, written, lost>>

StreamsNext == \/ PutField \/ FlushBitsOut \/ Truncate \/ InitBitsIn \/ GetOriginal
               \/ bits_init \/ bits_read \/ bits_truncated \/ bits_get \/ EndOfFields
------------------------------------------------------------------------------
Value(i) == written[i].value
\* What is read is what was written, whoever wrote and reads it, until the end of a cut-off file.
ReadsWhatWasPut ==
    /\ \A i \in DOMAIN got : got[i] = Value(i)
    /\ phase = "Failed" => lost > 0
    /\ phase = "Done" => lost = 0
=============================================================================
