-------------------------------- MODULE Editor ---------------------------------
(***************************************************************************)
(* The editor, usr/myvi.c: the text, the cursor, the part of the text on    *)
(* the screen, the three modes, and the file.  Characters are marks: NL, a  *)
(* tab, anything else.  The cursor can get lost: a backspace before the     *)
(* first character takes it to -1, and as the page moves by lines, a line   *)
(* of several rows can leave it off the page (astray).  Not modelled, as    *)
(* what the code then does is not defined: the keys that read or write      *)
(* buffer[-1] with the cursor at -1 (Defined), and an instruction of more   *)
(* than COLUMN_LEN characters.  The name is one of the root's, whose        *)
(* sectors can be read and have room: save_file does not look at what       *)
(* fs_create and fs_open return, and without an entry would write to what   *)
(* the FILE still holds.                                                    *)
(***************************************************************************)
EXTENDS Integers, Sequences, FiniteSets

CONSTANTS
    BUFFER_SIZE, ROW_LEN, COLUMN_LEN,
    CLUSTER,   \* characters in a cluster of the file
    Plain,     \* characters that take one cell
    Command,   \* characters with no meaning as commands, for the instruction line
    InstMax,   \* bound: characters of an instruction
    Files      \* the files the editor is started on

Absent == <<"absent">>    \* no file
NL  == "nl"
CR  == "cr"
Tab == "tab"
Keys == Plain \cup {NL, Tab}
Lost == "lost"      \* what a cluster holds that could not be written

ASSUME EditorAssumption ==
    /\ BUFFER_SIZE \in Nat \ {0} /\ ROW_LEN \in Nat \ {0} /\ COLUMN_LEN \in Nat \ {0}
    /\ COLUMN_LEN % 4 = 0 /\ InstMax \in Nat /\ CLUSTER \in Nat \ {0}
    /\ \A d \in Files : d = Absent \/ d \in Seq(Keys \cup {CR})

VARIABLES
    text,             \* buffer[0 .. size - 1]
    cursor_location, page_location,
    page_end,         \* where the text on the screen ended when it was last drawn
    mode,             \* "command", "insert", "last line", or "left": not running
    instruction,      \* its first inst_len characters
    disk,             \* the file; Absent if there is none
    astray            \* ghost: the cursor was at -1, or a line had several rows

editorVars ==
    <<text, cursor_location, page_location, page_end, mode, instruction, disk, astray>>

At(t, loc) == t[loc + 1]
Least(S)    == CHOOSE n \in S : \A k \in S : n <= k
Greatest(S) == CHOOSE n \in S : \A k \in S : n >= k

(***************************************************************************)
(* screen_flush: the place of each character, and where the screen is full. *)
(***************************************************************************)
After(ch, p) ==
    LET column == CASE ch = NL -> 0 [] ch = CR -> p.column
                    [] ch = Tab -> (p.column \div 4) * 4 + 4
                    [] OTHER -> p.column + 1
    IN  IF ch = NL \/ column = COLUMN_LEN THEN [row |-> p.row + 1, column |-> 0]
        ELSE [row |-> p.row, column |-> column]
Places(t, from) ==
    LET at[loc \in from .. Len(t)] ==
            IF loc = from THEN [row |-> 0, column |-> 0] ELSE After(At(t, loc - 1), at[loc - 1])
    IN  at
Flush(t, from) ==
    Least({loc \in from .. Len(t) : loc = Len(t) \/ Places(t, from)[loc].row >= ROW_LEN})

\* No line goes on to a second row.
Narrow(t) == \A loc \in 1 .. Len(t) - 1 :
                Places(t, 0)[loc].column = 0 => At(t, loc - 1) = NL

(***************************************************************************)
(* Lines: page_location_last_line, page_location_next_line,                 *)
(* cursor_prev_line, cursor_next_line                                       *)
(***************************************************************************)
LineStart(t, loc) == Greatest({l \in 0 .. loc : l = 0 \/ At(t, l - 1) = NL})
LineEnd(t, loc)   == Least({l \in loc .. Len(t) : l = Len(t) \/ At(t, l) = NL})

PrevLine(t, loc) == IF loc <= 0 THEN 0 ELSE LineStart(t, loc - 1)
NextLine(t, loc) == IF LineEnd(t, loc) + 1 < Len(t) THEN LineEnd(t, loc) + 1 ELSE loc

(***************************************************************************)
(* load_file: carriage returns are left out, a last line is ended.  A read  *)
(* that fails leaves the place in the file and the character as they are,   *)
(* whatever it was before the first.                                        *)
(***************************************************************************)
Known(d, fails, i) == Cardinality((1 .. i) \ fails)
ReadAs(d, fails, first) ==
    IF d = Absent THEN d
    ELSE [i \in DOMAIN d |-> IF Known(d, fails, i) = 0 THEN first ELSE d[Known(d, fails, i)]]
Reads(d) == {ReadAs(d, fails, first) : fails \in SUBSET (1 .. Len(d)), first \in Keys \cup {CR}}
Kept(d) ==
    LET upto[n \in 0 .. Len(d)] ==
            IF n = 0 THEN <<>>
            ELSE IF d[n] = CR THEN upto[n - 1] ELSE Append(upto[n - 1], d[n])
    IN  upto[Len(d)]
Loaded(d) ==
    IF d = Absent THEN <<NL>>
    ELSE IF Kept(d) = <<>> \/ Kept(d)[Len(Kept(d))] # NL THEN Append(Kept(d), NL) ELSE Kept(d)
TooLong(d) == d # Absent /\ Len(Kept(d)) >= BUFFER_SIZE - 1

\* A file that is TooLong is not edited: the editor ends before the first key.
Start ==
    \E d \in Reads(disk) :
        /\ mode = "left" /\ disk \in Files /\ ~TooLong(d)
        /\ text' = Loaded(d) /\ cursor_location' = 0 /\ page_location' = 0
        /\ page_end' = Flush(text', 0) /\ mode' = "command" /\ instruction' = <<>>
        /\ astray' = ~Narrow(text') /\ UNCHANGED disk

(***************************************************************************)
(* A key moved the cursor to c, in text t; the page follows and is drawn.   *)
(* end: where the page ended when the cursor is looked for on it.           *)
(***************************************************************************)
Up(t, c) == IF c < page_location THEN PrevLine(t, page_location) ELSE page_location
\* Also the mutant of Follow: only downwards.
Down(t, c, end) == IF c >= end THEN NextLine(t, page_location) ELSE page_location
Follow(t, c, end) == IF c < page_location THEN Up(t, c) ELSE Down(t, c, end)

Show(t, c, page) ==
    /\ text' = t /\ cursor_location' = c /\ page_location' = page
    /\ page_end' = Flush(t, page)
    /\ astray' = (astray \/ c < 0 \/ ~Narrow(t))

Deleted(t, site)     == SubSeq(t, 1, site) \o SubSeq(t, site + 2, Len(t))
Inserted(t, site, k) == SubSeq(t, 1, site) \o <<k>> \o SubSeq(t, site + 1, Len(t))

\* The editor ends.  Its variables are cleared here, not when it starts again.
Left == /\ mode' = "left" /\ text' = <<>> /\ instruction' = <<>> /\ astray' = FALSE
        /\ cursor_location' = 0 /\ page_location' = 0 /\ page_end' = 0

\* Before the first character there is nothing to read, write or delete.
Defined == cursor_location >= 0

(***************************************************************************)
(* do_command_mode                                                          *)
(***************************************************************************)
Look(t, c) == /\ Show(t, c, Follow(t, c, page_end))
              /\ UNCHANGED <<mode, instruction, disk>>
Move(c) == Look(text, c)

J == Defined /\ Move(NextLine(text, cursor_location))
H == Move(IF cursor_location > 0 /\ At(text, cursor_location - 1) # NL
          THEN cursor_location - 1 ELSE cursor_location)
\* From within a line k goes to its start; it never goes to the first line.
K == LET loc == PrevLine(text, cursor_location)
     IN  Move(IF loc = 0 THEN cursor_location ELSE loc)
L == Defined /\ Move(IF cursor_location + 1 < Len(text) /\ At(text, cursor_location) # NL
                     THEN cursor_location + 1 ELSE cursor_location)

\* Mutant of Cut: the last character goes too.
CutAny == Deleted(text, cursor_location)
Cut == IF cursor_location = Len(text) - 1 THEN text ELSE Deleted(text, cursor_location)
X == Defined /\ Look(Cut, cursor_location)

Colon == /\ mode' = "last line" /\ instruction' = <<":">> /\ UNCHANGED disk
         /\ Show(text, cursor_location, Follow(text, cursor_location, page_end))
I == /\ mode' = "insert"
     /\ UNCHANGED <<text, cursor_location, page_location, page_end, instruction, disk, astray>>

CommandKey == mode = "command" /\ (J \/ H \/ K \/ L \/ X \/ Colon \/ I)

(***************************************************************************)
(* do_insert_mode                                                           *)
(***************************************************************************)
Escape == /\ mode = "insert" /\ mode' = "command"
          /\ UNCHANGED <<text, cursor_location, page_location, page_end, instruction, disk, astray>>

\* The cursor moves even if there is nothing to delete in front of it.
Backspace ==
    /\ mode = "insert" /\ Defined
    /\ LET t == IF cursor_location = 0 THEN text ELSE Deleted(text, cursor_location - 1)
       IN  Show(t, cursor_location - 1, Up(t, cursor_location - 1))
    /\ UNCHANGED <<mode, instruction, disk>>

\* With the buffer full the editor is left, and nothing saved.
Insert(k) ==
    /\ mode = "insert" /\ Defined
    /\ IF Len(text) >= BUFFER_SIZE
       THEN Left /\ UNCHANGED disk
       ELSE LET t == Inserted(text, cursor_location, k)
            IN  /\ Show(t, cursor_location + 1,
                        Down(t, cursor_location + 1, Flush(t, page_location)))
                /\ UNCHANGED <<mode, instruction, disk>>

(***************************************************************************)
(* do_last_line_mode and save_file                                          *)
(***************************************************************************)
Instruct(inst) ==
    /\ mode = "last line" /\ instruction' = inst
    /\ UNCHANGED <<text, cursor_location, page_location, page_end, mode, disk, astray>>

EscapeLine == /\ mode = "last line" /\ instruction' = <<>> /\ mode' = "command"
              /\ UNCHANGED <<text, cursor_location, page_location, page_end, disk, astray>>
Rub  == instruction # <<>> /\ Instruct(SubSeq(instruction, 1, Len(instruction) - 1))
Type(k) == Len(instruction) < InstMax /\ Instruct(Append(instruction, k))

\* The file is written over from its beginning: what it had beyond the text
\* stays.
Old == IF disk = Absent THEN <<>> ELSE disk
Over(t) == t \o SubSeq(Old, Len(t) + 1, Len(Old))
\* Mutant of Saves: the text as it is drawn.
SavesShown == {Over(SubSeq(text, page_location + 1, Len(text)))}
Saves == {Over(text)}

\* When the card fails, in fs_write or in fs_close, any cluster may hold what it
\* should, what it did, or neither, and the entry has the new size or the old one.
\* No one looks.
Cluster(i) == (i - 1) \div CLUSTER
Tears == [0 .. Cluster(Len(Over(text)) + 1) -> {"new", "old", "lost"}]
Tear(tears, i) ==
    CASE tears[Cluster(i)] = "new" -> Over(text)[i]
      [] tears[Cluster(i)] = "old" /\ i <= Len(Old) -> Old[i]
      [] OTHER -> Lost
Torn == {[i \in 1 .. n |-> Tear(tears, i)] : n \in {Len(Old), Len(Over(text))}, tears \in Tears}

Leave == mode = "last line" /\ Left
Quit  == instruction = <<":", "q", "!">> /\ Leave /\ UNCHANGED disk
Told == instruction = <<":", "w", "q">>
Save == Told /\ Leave /\ disk' \in Saves
SaveFails == Told /\ Leave /\ disk' \in Torn

EditorInit ==
    /\ text = <<>> /\ cursor_location = 0 /\ page_location = 0 /\ page_end = 0
    /\ mode = "left" /\ instruction = <<>> /\ disk \in Files /\ astray = FALSE

EditorNext ==
    \/ CommandKey \/ Escape \/ Backspace \/ EscapeLine \/ Rub
    \/ \E k \in Keys : Insert(k)
    \/ \E k \in Command : Type(k)
    \/ Quit \/ Save \/ SaveFails

(***************************************************************************)
(* Properties                                                               *)
(***************************************************************************)
Editing == mode # "left"

TypeOK ==
    /\ text \in Seq(Keys) /\ Len(text) <= BUFFER_SIZE
    /\ mode \in {"command", "insert", "last line", "left"}
    /\ astray \in BOOLEAN
    /\ Editing => /\ cursor_location \in -1 .. Len(text) - 1
                  /\ page_location \in 0 .. Len(text) - 1
                  /\ page_end \in page_location .. Len(text)

\* The text fits the buffer and always ends in a newline: neither x nor backspace
\* takes the last one away, from which the loops over lines know where to stop.
EndsInLine == TypeOK /\ (Editing => text # <<>> /\ text[Len(text)] = NL)

\* The page on the screen begins where a line begins and shows the text as it is,
\* and the cursor is on it, whatever was inserted, deleted or joined before it, as
\* long as every line took one row and no backspace was typed before the first
\* character.  (do_command_mode and do_insert_mode, which move the page by lines.)
PageAtLine  == page_location = 0 \/ At(text, page_location - 1) = NL
CursorShown == Editing /\ ~astray => /\ PageAtLine
                                     /\ page_location <= cursor_location
                                     /\ cursor_location < page_end
                                     /\ page_end = Flush(text, page_location)

\* What :wq saved is what the editor loads again, if the card does not fail: unless
\* the text is shorter than the file was, whose end then stays behind it, or fills
\* the buffer so far that load_file takes the file for too long.
SavedReloads ==
    [][Save /\ Len(text) >= Len(Old) /\ ~TooLong(disk') => Loaded(disk') = text]_editorVars
=================================================================================
