---------------------------- MODULE InputReader ----------------------------
(***************************************************************************)
(* The reader of the terminal (clash-tui/src/tui/app/input.rs): a thread   *)
(* reads what bytes there are, appends them to those it could not use yet, *)
(* and sends the keys and pastes that are complete.                        *)
(*                                                                         *)
(* A byte is a name: "esc", "cr", "del", "ctl" (another control byte), an  *)
(* ASCII character, or a lead or continuation byte of a longer one.  The   *)
(* escape sequences keep their shape and lose length: ESC [ A is a key,    *)
(* ESC [ P opens a bracketed paste and ESC [ E closes it.                  *)
(***************************************************************************)
EXTENDS Integers, Sequences, SequencesExt

CONSTANT Streams  \* what a terminal may send

Ascii == {"x", "[", "A", "P", "E"}
Bytes == Ascii \cup {"esc", "cr", "del", "ctl", "lead", "cont"}
ASSUME ReaderAssumption == Streams \subseteq Seq(Bytes)

VARIABLES
    stream,    \* all the bytes of this terminal
    read,      \* how many of them have been read
    pending,   \* bytes read and not used
    events,    \* the keys and pastes sent to the interface
    torn       \* observer: a read ended in the middle of a marker

readerVars == <<stream, read, pending, events, torn>>

PasteStart == <<"esc", "[", "P">>
PasteEnd == <<"esc", "[", "E">>
UpKey == <<"esc", "[", "A">>

Drop(s, n) == SubSeq(s, n + 1, Len(s))
Pasted(text, used) == [event |-> <<[key |-> "Paste", text |-> text]>>, used |-> used]
Result(key, used) == [event |-> <<[key |-> key, text |-> <<>>]>>, used |-> used]
Swallow == [event |-> <<>>, used |-> 1]
NeedMore == [event |-> <<>>, used |-> 0]

\* Where the pasted text that p opens ends; 0 while its end marker has not come.
PasteEndAt(p) ==
    LET at == {i \in Len(PasteStart) + 1 .. Len(p) : IsPrefix(PasteEnd, Drop(p, i - 1))}
    IN IF at = {} THEN 0 ELSE CHOOSE i \in at : \A j \in at : i <= j

\* Mutant: bytes that are no character yet are given up at once.
FirstCharOrGiveUp(p) ==
    IF p[1] \in Ascii THEN Result(p[1], 1)
    ELSE IF p[1] = "lead" /\ Len(p) > 1 /\ p[2] = "cont" THEN Result("wide", 2)
    ELSE Result("?", 1)

\* A complete character; four bytes that hold none give up their first one.
FirstChar(p) ==
    IF p[1] \in Ascii THEN Result(p[1], 1)
    ELSE IF p[1] = "lead" /\ Len(p) > 1 /\ p[2] = "cont" THEN Result("wide", 2)
    ELSE IF Len(p) >= 4 THEN Result("?", 1) ELSE NeedMore

FirstPaste(p) ==
    LET i == PasteEndAt(p)
    IN IF i = 0 THEN NeedMore ELSE Pasted(SubSeq(p, Len(PasteStart) + 1, i - 1), i + Len(PasteEnd) - 1)

Controls == [cr |-> Result("Enter", 1), esc |-> Result("Esc", 1), del |-> Result("Backspace", 1), ctl |-> Swallow]

FirstEvent(p) ==
    IF IsPrefix(PasteStart, p) THEN FirstPaste(p)
    ELSE IF IsPrefix(UpKey, p) THEN Result("Up", Len(UpKey))
    ELSE IF p[1] \in DOMAIN Controls THEN Controls[p[1]]
    ELSE FirstChar(p)

\* A turn of the loop uses up what the bytes that are left begin with, unless it is not complete.
Turn(s) ==
    IF s.left = <<>> THEN s
    ELSE LET first == FirstEvent(s.left)
         IN [events |-> s.events \o first.event, left |-> Drop(s.left, first.used)]

\* There are no more turns that use something than there are bytes.
Parse(p) ==
    LET f[n \in 0..Len(p)] == IF n = 0 THEN [events |-> <<>>, left |-> p] ELSE Turn(f[n - 1])
    IN f[Len(p)]

-----------------------------------------------------------------------------
ReaderInit ==
    /\ stream \in Streams
    /\ read = 0 /\ pending = <<>> /\ events = <<>> /\ torn = FALSE

\* The bytes up to `to` end inside a marker that starts with ESC.
Inside(to) ==
    \E m \in {PasteStart, UpKey}, i \in 1..Len(stream) :
        /\ i <= to /\ to < i + Len(m) - 1
        /\ IsPrefix(m, Drop(stream, i - 1))

Read(n) ==
    LET parsed == Parse(pending \o SubSeq(stream, read + 1, read + n))
    IN /\ read + n <= Len(stream)
       /\ read' = read + n
       /\ events' = events \o parsed.events
       /\ pending' = parsed.left
       /\ torn' = (torn \/ Inside(read'))
       /\ UNCHANGED stream

ReaderNext == \E n \in 1..Len(stream) : Read(n)

ReaderSpec == ReaderInit /\ [][ReaderNext]_readerVars

-----------------------------------------------------------------------------
\* Type invariant of the reader: it has read a prefix, and holds back only bytes of it.
ReaderTypeOK == read \in 0..Len(stream) /\ Len(pending) <= read /\ torn \in BOOLEAN

\* How the terminal's bytes are cut into reads does not show: a character, a pasted text and
\* the end of a paste may arrive in pieces, and the keys and pastes are those of the whole.
\* (A marker that starts with ESC may not: its first piece is taken for the Esc key.)
CutsDoNotShow ==
    LET whole == Parse(SubSeq(stream, 1, read))
    IN ~torn => events = whole.events /\ pending = whole.left
=============================================================================
