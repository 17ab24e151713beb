-------------------------- MODULE ControllerReader --------------------------
(***************************************************************************)
(* One request to the controller of the core (clash-mihomo/src/client.rs): *)
(* the request is written, and the answer is read in whatever pieces it    *)
(* comes.  A plain request ("whole") reads to the end of the connection;   *)
(* "first" and "latest" take one frame of an answer that does not end;     *)
(* "stream" hands on every frame.  All but the frames of a stream are      *)
(* under a timeout.                                                        *)
(*                                                                         *)
(* A byte is a name; the head of an answer is its status and two line      *)
(* ends, and the size of a chunk is one digit.                             *)
(***************************************************************************)
EXTENDS Integers, Sequences, FiniteSets, SequencesExt

CONSTANTS
    Answers,    \* [good, coding, parts, doc, ends, sent, closes], see below
    ReadSizes   \* bound: how many bytes a read returns, if not all there are

VARIABLES
    asked,     \* the kind of request
    answer,    \* what the core sends: `sent` bytes of the answer, and then it closes the connection or not
    got,       \* how many of them have been read
    buffer,    \* those that were read and not used
    phase,     \* "head", "body", "over"
    frames,    \* frames counted by "latest", and the last of them
    results    \* what the caller is given

controllerVars == <<asked, answer, got, buffer, phase, frames, results>>

Digits == <<"1", "2", "3", "4", "5", "6", "7", "8", "9">>
LineEnd == <<"cr", "lf">>
HeadEnd == LineEnd \o LineEnd
MaxFrames == 2
RequestKinds == {"whole", "first", "latest", "stream"}

GoodDocument(doc) == [is |-> "document", doc |-> doc]
Failure == [is |-> "error", doc |-> <<>>]
TimedOut == [is |-> "timeout", doc |-> <<>>]

-----------------------------------------------------------------------------
(* What the core sends.  A part is [data, doc]: the bytes of a chunk, and  *)
(* the JSON document they open with, or <<>>; `doc` is the document that   *)
(* the whole body is.                                                      *)

ChunkBytes(part) == <<Digits[Len(part.data)]>> \o LineEnd \o part.data \o LineEnd
LastChunk == <<"0">> \o LineEnd
Garbage == <<"x">> \o LineEnd

\* The first n chunks, and what follows on all of them.
Chunks(a, n) == FlattenSeq([i \in 1..n |-> ChunkBytes(a.parts[i])])
AfterChunks(ends) == IF ends = "last" THEN LastChunk \o LineEnd ELSE IF ends = "garbage" THEN Garbage ELSE <<>>

Wire(a) ==
    LET head == <<IF a.good THEN "200" ELSE "500">> \o HeadEnd
    IN head \o IF a.coding = "chunked" THEN Chunks(a, Len(a.parts)) \o AfterChunks(a.ends) ELSE a.parts[1].data

-----------------------------------------------------------------------------
(* Frames.                                                                 *)

Dropped(s, n) == SubSeq(s, n + 1, Len(s))

\* Where `what` first stands in s, or 0.
FindIn(s, what) ==
    LET at == {i \in DOMAIN s : IsPrefix(what, Dropped(s, i - 1))}
    IN IF at = {} THEN 0 ELSE CHOOSE i \in at : \A j \in at : i <= j

Blanks == {"sp", "cr", "lf"}
TrimAscii(s) ==
    LET solid == {i \in DOMAIN s : s[i] \notin Blanks}
    IN IF solid = {} THEN <<>>
       ELSE SubSeq(s, CHOOSE i \in solid : \A j \in solid : i <= j, CHOOSE i \in solid : \A j \in solid : j <= i)

\* Brackets outside of strings are counted; the document ends where the first one is closed.
ScanByte(seen, n, byte) ==
    IF seen.end # 0 THEN seen
    ELSE IF seen.quoted THEN [seen EXCEPT !.escaped = ~seen.escaped /\ byte = "\\", !.quoted = seen.escaped \/ byte # "\""]
    ELSE IF byte = "\"" THEN [seen EXCEPT !.quoted = TRUE]
    ELSE IF byte \in {"{", "["} THEN [seen EXCEPT !.depth = @ + 1]
    ELSE IF byte \in {"}", "]"} THEN [seen EXCEPT !.depth = @ - 1, !.end = IF seen.depth = 1 THEN n ELSE 0]
    ELSE seen

Scan(s) ==
    LET f[n \in 0..Len(s)] ==
            IF n = 0 THEN [depth |-> 0, quoted |-> FALSE, escaped |-> FALSE, end |-> 0] ELSE ScanByte(f[n - 1], n, s[n])
    IN f[Len(s)]

FirstJsonFrame(bytes) ==
    LET s == TrimAscii(bytes)
        line == FindIn(s, <<"lf">>)
    IN IF s = <<>> THEN <<>>
       ELSE IF s[1] \in {"{", "["} THEN SubSeq(s, 1, Scan(s).end)
       ELSE IF line = 0 THEN <<>> ELSE TrimAscii(SubSeq(s, 1, line - 1))

FrameOf(bytes) == IF FirstJsonFrame(bytes) = <<>> THEN TrimAscii(bytes) ELSE FirstJsonFrame(bytes)

\* Decoding takes a document with nothing but blanks around it.
Decoded(bytes) ==
    LET s == TrimAscii(bytes)
    IN IF s # <<>> /\ s[1] = "{" /\ FirstJsonFrame(s) = s THEN GoodDocument(s) ELSE Failure

-----------------------------------------------------------------------------
(* Chunks: [is, data, rest], where is "more" while bytes are missing.      *)

Seen(is, data, rest) == [is |-> is, data |-> data, rest |-> rest]

SizeOf(byte) == IF byte \in ToSet(Digits) THEN CHOOSE n \in DOMAIN Digits : Digits[n] = byte ELSE 0

\* Mutant: a chunk is taken before the line end behind it has come.
ChunkWithoutEnd(s) ==
    LET line == FindIn(s, LineEnd)
        size == IF line = 0 THEN 0 ELSE SizeOf(s[1])
        start == line + 1
    IN IF line = 0 \/ (size # 0 /\ Len(s) < start + size) THEN Seen("more", <<>>, s)
       ELSE IF s[1] = "0" THEN Seen("last", <<>>, Dropped(s, start))
       ELSE IF size = 0 THEN Seen("bad", <<>>, s)
       ELSE Seen("chunk", SubSeq(s, start + 1, start + size), Dropped(s, start + size + 2))

NextChunk(s) ==
    LET line == FindIn(s, LineEnd)
        size == IF line = 2 THEN SizeOf(s[1]) ELSE 0
        start == line + 1
    IN IF line = 0 THEN Seen("more", <<>>, s)
       ELSE IF line = 2 /\ s[1] = "0" THEN Seen("last", <<>>, Dropped(s, start))
       ELSE IF size = 0 THEN Seen("bad", <<>>, s)
       ELSE IF Len(s) < start + size + 2 THEN Seen("more", <<>>, s)
       \* Only a stream and a plain request look at what stands behind a chunk.
       ELSE IF asked \in {"stream", "whole"} /\ ~IsPrefix(LineEnd, Dropped(s, start + size)) THEN Seen("bad", <<>>, s)
       ELSE Seen("chunk", SubSeq(s, start + 1, start + size), Dropped(s, start + size + 2))

\* A turn of the loop takes the next chunk, unless what came before it was no chunk.
DecodeChunk(seen) ==
    IF seen.is # "chunk" THEN seen
    ELSE LET chunk == NextChunk(seen.rest)
         IN Seen(chunk.is, seen.data \o chunk.data, chunk.rest)

\* There are no more turns than bytes.
DecodeChunkedBody(s) ==
    LET f[n \in 0..Len(s)] == IF n = 0 THEN Seen("chunk", <<>>, s) ELSE DecodeChunk(f[n - 1])
    IN [ok |-> f[Len(s)].is = "last", data |-> f[Len(s)].data]

-----------------------------------------------------------------------------
(* How an answer is made: in chunks, that each open with a document or do  *)
(* not, or in one piece, which is a document and nothing but blanks.       *)

IsDocument(doc) == doc # <<>> /\ doc[1] = "{" /\ Scan(doc).end = Len(doc)

OpensWith(bytes, doc) ==
    LET s == TrimAscii(bytes)
    IN IF doc = <<>> THEN \A n \in 1..Len(s) : ~IsDocument(SubSeq(s, 1, n)) ELSE IsDocument(doc) /\ IsPrefix(doc, s)

MadeInChunks(a) ==
    /\ \A i \in DOMAIN a.parts : Len(a.parts[i].data) \in DOMAIN Digits /\ OpensWith(a.parts[i].data, a.parts[i].doc)
    /\ LET body == TrimAscii(FlattenSeq([i \in DOMAIN a.parts |-> a.parts[i].data]))
       IN a.ends = "last" => a.doc = IF IsDocument(body) THEN body ELSE <<>>

MadeInOnePiece(a) ==
    /\ Len(a.parts) = 1 /\ IsDocument(a.parts[1].doc) /\ IsPrefix(a.parts[1].doc, a.parts[1].data)
    /\ \A i \in Len(a.parts[1].doc) + 1 .. Len(a.parts[1].data) : a.parts[1].data[i] \in Blanks

ASSUME ControllerAssumption ==
    /\ ReadSizes \subseteq Nat
    /\ \A a \in Answers :
        /\ a.good \in BOOLEAN /\ a.closes \in BOOLEAN
        /\ a.coding \in {"chunked", "length", "open"} /\ a.ends \in {"last", "garbage", "never"}
        /\ a.parts \in Seq([data : Seq(STRING), doc : Seq(STRING)])
        /\ a.sent \in 0..Len(Wire(a))
        /\ IF a.coding = "chunked" THEN MadeInChunks(a) ELSE MadeInOnePiece(a)

-----------------------------------------------------------------------------
\* A core that cannot be reached is one that sends nothing and closes the connection.
ControllerInit ==
    /\ asked \in RequestKinds /\ answer \in Answers
    /\ got = 0 /\ buffer = <<>> /\ phase = "head" /\ results = <<>>
    /\ frames = [count |-> 0, last |-> <<>>]

EntersBody(s) == phase' = "body" /\ buffer' = s
GivesUp(result) ==
    /\ phase' = "over" /\ results' = Append(results, result)
    /\ UNCHANGED <<asked, answer, got, buffer, frames>>

\* A plain request does not look at what it reads before the connection has ended.
Wants ==
    /\ phase # "over"
    /\ asked # "whole" =>
        IF phase = "head" THEN FindIn(buffer, HeadEnd) = 0
        ELSE IF answer.coding = "chunked" THEN NextChunk(buffer).is = "more"
        ELSE IF answer.coding = "length" THEN Len(buffer) < Len(answer.parts[1].data)
        ELSE FirstJsonFrame(buffer) = <<>>

ReadMore(n) ==
    /\ Wants /\ n > 0 /\ got + n <= answer.sent
    /\ got' = got + n
    /\ buffer' = buffer \o SubSeq(Wire(answer), got + 1, got + n)
    /\ UNCHANGED <<asked, answer, phase, frames, results>>

AtEnd == Wants /\ got = answer.sent /\ answer.closes

\* "first" and "latest" go on asking a connection that has ended for the rest of a chunk.
Spins == phase = "body" /\ asked \in {"first", "latest"} /\ answer.coding = "chunked"

\* Nothing more comes.  A stream that has begun waits without end.
TimesOut ==
    /\ Wants /\ got = answer.sent /\ (answer.closes => Spins)
    /\ asked = "stream" => phase = "head"
    /\ GivesUp(TimedOut)

Checked(bytes) == IF answer.good THEN Decoded(bytes) ELSE Failure

ParseHttpResponse ==
    /\ AtEnd /\ asked = "whole"
    /\ LET end == FindIn(buffer, HeadEnd)
           body == Dropped(buffer, end + 3)
       IN GivesUp(IF end = 0 \/ (answer.coding = "chunked" /\ ~DecodeChunkedBody(body).ok) THEN Failure
                  ELSE Checked(IF answer.coding = "chunked" THEN DecodeChunkedBody(body).data ELSE body))

HeadIsCut == AtEnd /\ asked # "whole" /\ phase = "head" /\ GivesUp(Failure)

\* Only a stream refuses a bad status before it reads the body.
ReadHead ==
    /\ phase = "head" /\ asked # "whole" /\ ~Wants
    /\ IF asked = "stream" /\ ~answer.good
       THEN GivesUp(Failure)
       ELSE EntersBody(Dropped(buffer, FindIn(buffer, HeadEnd) + 3)) /\ UNCHANGED <<asked, answer, got, frames, results>>

\* The connection ends in the body: a stream ends, a document is what has come of it.
BodyIsCut ==
    /\ AtEnd /\ phase = "body" /\ ~Spins /\ asked # "whole"
    /\ IF answer.coding = "chunked" /\ buffer = <<>>
       THEN phase' = "over" /\ UNCHANGED <<asked, answer, got, buffer, frames, results>>
       ELSE GivesUp(IF answer.coding = "chunked" THEN Failure ELSE Checked(buffer))

ReadBody ==
    /\ phase = "body" /\ asked # "whole" /\ answer.coding # "chunked" /\ ~Wants
    /\ GivesUp(Checked(IF answer.coding = "length" THEN SubSeq(buffer, 1, Len(answer.parts[1].data))
                       ELSE FirstJsonFrame(buffer)))

InChunks(is) ==
    /\ phase = "body" /\ asked # "whole" /\ answer.coding = "chunked" /\ NextChunk(buffer).is = is

BadChunk == InChunks("bad") /\ GivesUp(Failure)

\* The chunk of size zero ends the body; "latest" then has what came before it.
EndChunk ==
    /\ InChunks("last")
    /\ IF asked = "stream"
       THEN phase' = "over" /\ UNCHANGED <<asked, answer, got, buffer, frames, results>>
       ELSE GivesUp(IF asked = "first" \/ frames.count = 0 THEN Failure ELSE Checked(frames.last))

\* A frame that cannot be decoded is an error of its own: a stream goes on.
StreamFrame ==
    /\ InChunks("chunk") /\ asked = "stream"
    /\ buffer' = NextChunk(buffer).rest
    /\ results' = Append(results, Decoded(FrameOf(NextChunk(buffer).data)))
    /\ UNCHANGED <<asked, answer, got, phase, frames>>

FirstFrame ==
    /\ InChunks("chunk") /\ asked = "first"
    /\ GivesUp(Checked(FrameOf(NextChunk(buffer).data)))

LatestFrame ==
    /\ InChunks("chunk") /\ asked = "latest"
    /\ LET frame == FrameOf(NextChunk(buffer).data)
       IN IF frames.count + 1 = MaxFrames
          THEN GivesUp(Checked(frame))
          ELSE /\ frames' = [count |-> frames.count + 1, last |-> frame]
               /\ buffer' = NextChunk(buffer).rest
               /\ UNCHANGED <<asked, answer, got, phase, results>>

ControllerNext ==
    \/ \E n \in ReadSizes \cup {answer.sent - got} : ReadMore(n)
    \/ TimesOut \/ ParseHttpResponse \/ HeadIsCut \/ ReadHead \/ BodyIsCut \/ ReadBody
    \/ BadChunk \/ EndChunk \/ StreamFrame \/ FirstFrame \/ LatestFrame

ControllerSpec == ControllerInit /\ [][ControllerNext]_controllerVars

-----------------------------------------------------------------------------
ControllerTypeOK ==
    /\ asked \in RequestKinds /\ phase \in {"head", "body", "over"}
    /\ got \in 0..answer.sent /\ Len(buffer) <= got
    /\ frames.count \in 0..MaxFrames - 1
    /\ \A i \in DOMAIN results : results[i].is \in {"document", "error", "timeout"}

(* What an answer amounts to, told from how it was made and how much of it *)
(* was sent.                                                               *)

HeadEndsAt == 5
HeadSent == answer.sent >= HeadEndsAt
ChunksEnd(n) == HeadEndsAt + Len(Chunks(answer, n))
ChunksSent == Cardinality({i \in DOMAIN answer.parts : ChunksEnd(i) <= answer.sent})
AllSent == answer.sent = Len(Wire(answer))
EndSent ==
    \/ answer.ends = "last" /\ answer.sent >= Len(Wire(answer)) - Len(LineEnd)
    \/ answer.ends = "garbage" /\ AllSent

Gives(doc) == IF answer.good /\ doc # <<>> THEN GoodDocument(doc) ELSE Failure
PartsGive(n) == [i \in 1..n |-> Gives(answer.parts[i].doc)]

\* A document in one piece: it counts if all of it came, and behind it nothing but blanks.
PieceSent == answer.sent >= HeadEndsAt + Len(answer.parts[1].doc)
PieceGives == IF PieceSent THEN Gives(answer.parts[1].doc) ELSE Failure

NothingElse == IF answer.closes THEN Failure ELSE TimedOut

WholeGives ==
    IF ~answer.closes THEN TimedOut
    ELSE IF answer.coding # "chunked" THEN PieceGives
    ELSE IF EndSent /\ answer.ends = "last" THEN Gives(answer.doc) ELSE Failure

\* Behind its frames a stream has an error, unless it ended well, or where a chunk ends, or is still open.
StreamGives ==
    LET well == IF EndSent THEN answer.ends = "last" ELSE ~answer.closes \/ answer.sent = ChunksEnd(ChunksSent)
    IN PartsGive(ChunksSent) \o IF well THEN <<>> ELSE <<Failure>>

FrameGiven ==
    LET enough == IF asked = "first" THEN 1 ELSE MaxFrames
    IN IF ChunksSent >= enough THEN PartsGive(ChunksSent)[enough]
       ELSE IF ~EndSent THEN TimedOut
       ELSE IF asked = "latest" /\ ChunksSent > 0 /\ answer.ends = "last" THEN PartsGive(ChunksSent)[ChunksSent] ELSE Failure

InOnePieceGives ==
    IF answer.closes \/ AllSent \/ (answer.coding = "open" /\ PieceSent) THEN <<PieceGives>>
    ELSE IF asked = "stream" THEN <<>> ELSE <<TimedOut>>

Expected ==
    IF ~HeadSent THEN <<NothingElse>>
    ELSE IF asked = "whole" THEN <<WholeGives>>
    ELSE IF asked = "stream" /\ ~answer.good THEN <<Failure>>
    ELSE IF answer.coding # "chunked" THEN InOnePieceGives
    ELSE IF asked = "stream" THEN StreamGives ELSE <<FrameGiven>>

Quiet == phase = "over" \/ (asked = "stream" /\ phase = "body" /\ Wants /\ got = answer.sent /\ ~answer.closes)

\* In whatever pieces an answer is read, and wherever it breaks off, the caller is given exactly the
\* documents that chunks open with and that came whole, in their order, and after them an error, a
\* timeout or the end: none is lost or cut, and a part of a document is never taken for one.
FramesComeWhole == IsPrefix(results, Expected) /\ (Quiet => results = Expected)
=============================================================================
