--------------------------------- MODULE Shell ---------------------------------
(***************************************************************************)
(* The prompt of usr/ps.c on the screen of driver/vga.c, and the editor it  *)
(* starts.  The screen has the editor's columns and one row more, on which  *)
(* the clock, kernel/time/time.c, draws all the time.  Commands are words   *)
(* of one or two letters, and one that is not "vi" or "clear" is a line of  *)
(* output.                                                                  *)
(***************************************************************************)
EXTENDS Editor

CONSTANTS
    LINE,       \* characters of a line: 63
    Letters,    \* characters typed at the prompt besides the blank
    PROMPT,     \* cells the prompt takes: "PS>"
    TIME_COL,   \* the clock's first column: 61
    VGA_CHAR_MAX_COL    \* cells of a row, with those off the screen: 128

Blank == " "
NUL   == "nul"
Vi    == <<"v">>
Clear == <<"c">>
\* Cells no one types.
Mark  == "ps>"
Drawn == "drawn"
Past  == "past"
Time  == "time"

ASSUME ShellAssumption ==
    /\ LINE \in Nat /\ PROMPT \in Nat /\ PROMPT + LINE < COLUMN_LEN
    /\ TIME_COL \in 1 .. COLUMN_LEN - 1
    /\ VGA_CHAR_MAX_COL \in Nat /\ COLUMN_LEN <= VGA_CHAR_MAX_COL
    /\ NUL \notin Letters

VARIABLES
    ps_buffer, ps_buffer_index,
    param,       \* the argument of the command
    console,     \* cursor_row, cursor_col and the cells; rows above are Past
    tabbed       \* ghost: there was a tab in the line

promptVars == <<ps_buffer, ps_buffer_index, param, console, tabbed>>
vars == <<editorVars, promptVars>>

(***************************************************************************)
(* kernel_putchar, kernel_scroll_screen, kernel_clear_screen                *)
(***************************************************************************)
Rows    == 0 .. ROW_LEN
Columns == 0 .. COLUMN_LEN - 1
RowOf(x) == [column \in Columns |-> x]
Cleared  == [row |-> 0, col |-> 0, cells |-> [row \in Rows |-> RowOf(Blank)]]

Scrolled(cells) == [r \in Rows |-> IF r < ROW_LEN - 1 THEN cells[r + 1]
                                   ELSE IF r = ROW_LEN - 1 THEN RowOf(Blank) ELSE cells[r]]
NewLine(c) ==
    LET last  == c.row = ROW_LEN - 1
        row   == IF last THEN c.row ELSE c.row + 1
        cells == IF last THEN Scrolled(c.cells) ELSE c.cells
    IN  [row |-> row, col |-> 0,
         cells |-> [r \in Rows |-> IF r < row THEN RowOf(Past) ELSE cells[r]]]
\* The column can be left of the screen: off it, or on it again.
Draw(c, col, ch) ==
    [c EXCEPT !.cells[c.row] = [k \in Columns |-> IF k = col % VGA_CHAR_MAX_COL THEN ch ELSE @[k]]]
Put(c, ch) ==
    LET d == IF c.col = COLUMN_LEN THEN NewLine(c) ELSE c
    IN  [Draw(d, d.col, ch) EXCEPT !.col = d.col + 1]
PutTab(c) ==
    IF c.col >= COLUMN_LEN - 4 THEN NewLine(c)
    ELSE LET to == ((c.col + 4) \div 4) * 4
         IN  [c EXCEPT !.col = to,
                       !.cells[c.row] = [k \in Columns |->
                            IF k \in c.col .. c.col + ((4 - c.col) % 4) - 1 THEN Blank ELSE @[k]]]
\* A command's output is taken for one line.
Output(c) == NewLine(Put(c, Past))
Prompted(c) == [c EXCEPT !.col = PROMPT,
                         !.cells[c.row] = [k \in Columns |-> IF k < PROMPT THEN Mark ELSE @[k]]]

(***************************************************************************)
(* The keys of ps, between two commands                                     *)
(***************************************************************************)
AtPrompt == mode = "left"

\* Bound: after a save only empty lines are entered.
PromptKey(k) ==
    /\ AtPrompt /\ disk \in Files /\ ps_buffer_index < LINE
    /\ ps_buffer' = [ps_buffer EXCEPT ![ps_buffer_index] = k]
    /\ ps_buffer_index' = ps_buffer_index + 1
    /\ console' = (IF k = Tab THEN PutTab(console) ELSE Put(console, k))
    /\ tabbed' = (tabbed \/ k = Tab) /\ param' = <<>>
    /\ UNCHANGED editorVars

\* Mutant of RubbedOut: the cell under the cursor is blanked.
RubbedOutAt == console.col
RubbedOut == console.col - 1
PromptRub ==
    /\ AtPrompt /\ ps_buffer_index > 0
    /\ ps_buffer_index' = ps_buffer_index - 1
    /\ console' = [Draw(console, RubbedOut, Blank) EXCEPT !.col = console.col - 1]
    /\ param' = <<>>
    /\ UNCHANGED <<editorVars, ps_buffer, tabbed>>

(***************************************************************************)
(* Enter and parse_cmd: the line is ended, and split at the first blank of  *)
(* the whole buffer, which may lie beyond its end.                          *)
(***************************************************************************)
\* Mutant of Ended: the line is not ended.
EndedNot == ps_buffer
Ended == [ps_buffer EXCEPT ![ps_buffer_index] = NUL]
Blanks(b) == {i \in 0 .. LINE - 1 : b[i] = Blank}
Split == IF Blanks(Ended) = {} THEN Ended
         ELSE [Ended EXCEPT ![Least(Blanks(Ended))] = NUL]
StringAt(b, i) == LET ends == {j \in i .. LINE : b[j] = NUL}
                  IN  [k \in 1 .. Least(ends \cup {LINE + 1}) - i |-> b[i + k - 1]]
Word == StringAt(Split, 0)
Param == IF Blanks(Ended) = {} THEN Word ELSE StringAt(Split, Least(Blanks(Ended)) + 1)

Entered ==
    /\ AtPrompt /\ ps_buffer' = Split /\ ps_buffer_index' = 0 /\ param' = Param
    /\ tabbed' = FALSE

RunCommand ==
    /\ Entered /\ Word # Vi
    /\ console' = Prompted(IF Word = Clear THEN Cleared
                           ELSE IF Word = <<>> THEN NewLine(console)
                           ELSE Output(NewLine(console)))
    /\ UNCHANGED editorVars

\* Mutant of AfterVi: the screen is left as the editor drew it.
AfterViDrawn == Prompted(Output([Cleared EXCEPT !.cells = console.cells]))
AfterVi == Prompted(Output(Cleared))

\* Where the cursor was does not matter, as the screen is cleared in the end.
DrawnOver(cells) == [row \in Rows |-> [k \in Columns |->
                        IF row < ROW_LEN \/ k < TIME_COL - 1 THEN Drawn ELSE cells[row][k]]]

\* Bound: the editor is started by the first line.
StartVi ==
    /\ Entered /\ Word = Vi /\ \A i \in 1 .. LINE : ps_buffer[i] = NUL
    /\ \/ /\ Start
          /\ console' = [Cleared EXCEPT !.cells = DrawnOver(console.cells)]
       \/ /\ \E d \in Reads(disk) : TooLong(d)
          /\ console' = AfterVi /\ UNCHANGED editorVars

EditorKey ==
    /\ mode # "left" /\ EditorNext
    /\ console' = IF mode' = "left" THEN AfterVi ELSE console
    /\ UNCHANGED <<ps_buffer, ps_buffer_index, param, tabbed>>

\* system_time_proc, another process: a character of the date or the time.
DrawTime ==
    /\ \E k \in TIME_COL .. COLUMN_LEN - 1 : console' = [console EXCEPT !.cells[ROW_LEN][k] = Time]
    /\ UNCHANGED <<editorVars, ps_buffer, ps_buffer_index, param, tabbed>>

Init ==
    /\ EditorInit
    /\ ps_buffer = [i \in 0 .. LINE |-> NUL] /\ ps_buffer_index = 0 /\ param = <<>>
    /\ console = Prompted(Output(Cleared)) /\ tabbed = FALSE

Next == \/ \E k \in Letters \cup {Blank, Tab} : PromptKey(k)
        \/ PromptRub \/ RunCommand \/ StartVi \/ EditorKey \/ DrawTime

Spec == Init /\ [][Next]_vars

(***************************************************************************)
(* Properties                                                               *)
(***************************************************************************)
\* The cursor's row shows the prompt and the line as it will be run, with the
\* cursor behind it and nothing below but the clock, after any output, rubbing out,
\* scrolling or editing, as long as no tab was typed in the line: ps rubs a tab out
\* as one cell (ps.c:66-72).  The next prompt is whole again.
ClockOnly(cells) == \A k \in Columns : cells[k] = Blank \/ (k >= TIME_COL /\ cells[k] = Time)
LineShown ==
    mode = "left" =>
        /\ ~tabbed =>
            /\ console.col = PROMPT + ps_buffer_index
            /\ console.cells[console.row] = [k \in Columns |->
                    IF k < PROMPT THEN Mark
                    ELSE IF k < console.col THEN ps_buffer[k - PROMPT] ELSE Blank]
        /\ \A r \in console.row + 1 .. ROW_LEN - 1 : console.cells[r] = RowOf(Blank)
        /\ ClockOnly(console.cells[ROW_LEN])

\* If there is a blank in the line, the command's argument is what was typed
\* behind it: nothing of an earlier line gets into it.
ArgumentTyped ==
    [][Entered => \A i \in 0 .. ps_buffer_index - 1 :
            (ps_buffer[i] = Blank /\ \A j \in 0 .. i - 1 : ps_buffer[j] # Blank) =>
                param' = [k \in 1 .. ps_buffer_index - i - 1 |-> ps_buffer[i + k]]]_vars
=================================================================================
