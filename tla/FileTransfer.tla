---------------------------- MODULE FileTransfer ----------------------------
(***************************************************************************)
(* FileWriter and FileReader: writeFile(path, fn) hands fn a writer on a   *)
(* new file, readFile(path, fn) a reader, and each keeps a position of its *)
(* own.  Here one fn writes, and then one reads all lines or everything.   *)
(* The reader decodes each chunk for itself; a chunk may hold fewer bytes  *)
(* than were asked for, and ends anywhere.                                 *)
(*                                                                         *)
(* Of the bytes, only what readLines tells apart is kept: a line feed, a   *)
(* character of one byte, and the two halves of a character of two.        *)
(***************************************************************************)
EXTENDS Integers, Sequences, FiniteSets, SequencesExt

CONSTANTS
    ChunkSize,          \* 64 KB in the code
    MaxSize,            \* bound on the size of the file
    MaxWrites           \* bound on the calls of the writer

ASSUME TransferAssumption == ChunkSize \in Nat \ {0} /\ MaxSize \in Nat /\ MaxWrites \in Nat

VARIABLES
    transfer,           \* writing, reading, readingAll or closed
    bytes,              \* the file
    position,           \* of the writer, then of the reader
    writes,             \* calls of the writer so far
    leftover, lines,    \* of readLines: what is left of the last line, what it has yielded
    readAll,            \* what readAll has returned
    cut                 \* history: whether a chunk has ended inside a character

transferVars == <<transfer, bytes, position, writes, leftover, lines, readAll, cut>>
fileStateVars == <<leftover, lines, readAll, cut>>

\* What clients write: text, as Buffer.from encodes it.
Data == {<<"x">>, <<"lf">>, <<"head", "tail">>, <<"x", "lf">>}

TransferInit ==
    /\ transfer = "writing"
    /\ bytes = <<>>
    /\ position = 0
    /\ writes = 0
    /\ leftover = <<>>
    /\ lines = <<>>
    /\ readAll = <<>>
    /\ cut = FALSE

----------------------------------------------------------------------------

\* The file with data at a position, zeros (any character) where it had no bytes.
Patched(at, data) ==
    [i \in 1..(IF at + Len(data) > Len(bytes) THEN at + Len(data) ELSE Len(bytes)) |->
        IF i > at /\ i <= at + Len(data) THEN data[i - at]
        ELSE IF i <= Len(bytes) THEN bytes[i] ELSE "x"]

MayWrite(size) == transfer = "writing" /\ writes < MaxWrites /\ size <= MaxSize /\ writes' = writes + 1

WriteData(data) ==
    /\ MayWrite(position + Len(data))
    /\ bytes' = Patched(position, data)
    /\ position' = position + Len(data)
    /\ UNCHANGED <<transfer, fileStateVars>>

WriteAt(at, data) ==
    /\ MayWrite(at + Len(data))
    /\ bytes' = Patched(at, data)
    /\ UNCHANGED <<transfer, position, fileStateVars>>

\* A longer length pads the file.
Truncate(length) ==
    /\ MayWrite(length)
    /\ bytes' = [i \in 1..length |-> IF i <= Len(bytes) THEN bytes[i] ELSE "x"]
    /\ UNCHANGED <<transfer, position, fileStateVars>>

SetPosition(to) ==
    /\ MayWrite(to)
    /\ position' = to
    /\ UNCHANGED <<transfer, bytes, fileStateVars>>

\* The writer's fn returns, the file is closed and opened to be read.
OpenReader ==
    /\ transfer = "writing"
    /\ transfer' \in {"reading", "readingAll"}
    /\ position' = 0
    /\ UNCHANGED <<bytes, writes, fileStateVars>>

----------------------------------------------------------------------------

\* chunk.toString(): a half of a character that is not next to the other half becomes a
\* replacement character; two that are together stay, and stand for the character.
Decode(bs) ==
    LET Together(i) == \/ bs[i] = "head" /\ i < Len(bs) /\ bs[i + 1] = "tail"
                       \/ bs[i] = "tail" /\ i > 1 /\ bs[i - 1] = "head"
    IN  [i \in DOMAIN bs |-> IF bs[i] \in {"head", "tail"} /\ ~Together(i) THEN "bad" ELSE bs[i]]

\* Where the lines of a text end, one after the other: at its line feeds, and after it.
Ends(text) ==
    CHOOSE e \in SetToSeqs({i \in DOMAIN text : text[i] = "lf"} \cup {Len(text) + 1}) :
        \A i, j \in DOMAIN e : i < j => e[i] < e[j]

\* text.split('\n')
Split(text) ==
    LET e == Ends(text)
    IN  [k \in DOMAIN e |-> SubSeq(text, (IF k = 1 THEN 0 ELSE e[k - 1]) + 1, e[k] - 1)]

\* read(length) may return fewer bytes than asked for; the position moves by those.
Chunk(n) == SubSeq(bytes, position + 1, position + n)

\* Mutant: what is left over is not put before the next chunk.
LinesOfChunk(n) == Split(Decode(Chunk(n)))

LinesSoFar(n) == Split(leftover \o Decode(Chunk(n)))

InsideCharacter(p) == p < Len(bytes) /\ bytes[p] = "head" /\ bytes[p + 1] = "tail"

\* A round of the loops of [Symbol.asyncIterator] and readLines: the last line is held back.
ReadChunk(n) ==
    /\ position + n <= Len(bytes)
    /\ position' = position + n
    /\ lines' = lines \o Front(LinesSoFar(n))
    /\ leftover' = Last(LinesSoFar(n))
    /\ cut' = (cut \/ InsideCharacter(position + n))
    /\ UNCHANGED <<transfer, bytes, writes, readAll>>

\* An empty chunk ends the loops: the last line, unless it is empty.
ReadEnd ==
    /\ position = Len(bytes)
    /\ transfer' = "closed"
    /\ lines' = IF leftover = <<>> THEN lines ELSE Append(lines, leftover)
    /\ UNCHANGED <<bytes, position, writes, leftover, readAll, cut>>

ReadLines ==
    /\ transfer = "reading"
    /\ (\E n \in 1..ChunkSize : ReadChunk(n)) \/ ReadEnd

\* One read of the size of the file.
ReadAll ==
    /\ transfer = "readingAll"
    /\ transfer' = "closed"
    /\ readAll' = Chunk(Len(bytes))
    /\ position' = Len(bytes)
    /\ UNCHANGED <<bytes, writes, leftover, lines, cut>>

TransferNext ==
    \/ \E d \in Data : WriteData(d) \/ \E at \in 0..MaxSize : WriteAt(at, d)
    \/ \E n \in 0..MaxSize : Truncate(n) \/ SetPosition(n)
    \/ OpenReader
    \/ ReadLines
    \/ ReadAll

TransferSpec == TransferInit /\ [][TransferNext]_transferVars

----------------------------------------------------------------------------

ContentLines ==
    LET ls == Split(Decode(bytes))
    IN  IF Last(ls) = <<>> THEN Front(ls) ELSE ls

\* However the file is cut into chunks, readLines yields the lines of its text, the last one
\* whether it ends with a line feed or not; if a chunk ends inside a character, that
\* character is garbled, but no line is lost, split or joined.
LinesMatchContent ==
    transfer = "closed" =>
        \/ readAll = bytes
        \/ /\ Len(lines) = Len(ContentLines)
           /\ ~cut => lines = ContentLines
=============================================================================
