---------------------------- MODULE DebugConsole ----------------------------
(***************************************************************************)
(* The line editor of the debug console (wtmi/debug.c): escape sequences,  *)
(* the command line with its cursor, the history, which drops old commands *)
(* to make room, and the line kept while the user walks through it.  The   *)
(* terminal is modelled as far as the editor draws on it: the text behind  *)
(* the prompt and the cursor, counted from the end of the prompt.  Each    *)
(* byte getc() returns is one step.                                        *)
(***************************************************************************)
EXTENDS Naturals, Sequences, FiniteSets, SequencesExt

CONSTANTS
  CmdSize,        \* sizeof(cmd) (128)
  EscSize,        \* sizeof(escape_seq) (32)
  HistorySize,    \* sizeof(history) (2048)
  Bytes,          \* what comes from the terminal
  Typed           \* the printable bytes that are typed outside of sequences

\* The bytes that are told apart; "x" is any other letter, " " is 0x20 to 0x2f,
\* "ctl" any control byte without a meaning.
Upper     == {"A", "B", "C", "D", "["}          \* 0x40 to 0x5f
Final     == Upper \cup {"x", "~"}              \* 0x40 to 0x7e
Between   == {" "}                              \* 0x20 to 0x2f
Printable == Final \cup Between \cup {"3"}      \* 0x20 to 0x7e
Control   == {"^A", "^C", "^E", "backspace", "return", "esc", "ctl"}

ASSUME ConsoleAssumption ==
  /\ CmdSize \in Nat \ {0} /\ EscSize \in Nat \ {0, 1}
  /\ HistorySize \in Nat /\ CmdSize <= HistorySize
  /\ Bytes \subseteq Printable \cup Control /\ Typed \subseteq Printable

VARIABLES
  cmd, cmdpos,            \* the line (cmdlen bytes of it) and the cursor
  escape_state, escape_seq,
  history, history_pos,   \* the commands in it, oldest first
  orig_cmd, orig_cmdlen,  \* the array orig_cmd, stale bytes included
  term,                   \* the terminal: the text behind the prompt, the cursor
  junk                    \* history: something was printed into the line

evars == <<escape_state, escape_seq>>
hvars == <<history, history_pos, orig_cmd, orig_cmdlen>>
tvars == <<term, junk>>
dvars == <<cmd, cmdpos, evars, hvars, tvars>>

NoByte  == "NUL"
NewLine == [text |-> <<>>, cur |-> 0]

DInit ==
  /\ cmd = <<>> /\ cmdpos = 0
  /\ escape_state = 0 /\ escape_seq = <<>>
  /\ history = <<>> /\ history_pos = 0
  /\ orig_cmd = [i \in 1..CmdSize |-> NoByte] /\ orig_cmdlen = 0
  /\ term = NewLine /\ junk = FALSE

-----------------------------------------------------------------------------
(***************************************************************************)
(* The terminal (external).                                                *)
(***************************************************************************)
\* What is printed replaces what the cursor passes.
Puts(t, s) == LET end == t.cur + Len(s) IN
              [text |-> SubSeq(t.text, 1, t.cur) \o s \o SubSeq(t.text, end + 1, Len(t.text)),
               cur  |-> end]
EraseRest(t)  == [t EXCEPT !.text = SubSeq(@, 1, t.cur)]
MoveTo(t, c)  == [t EXCEPT !.cur = c]

-----------------------------------------------------------------------------
(***************************************************************************)
(* Editing the line.                                                       *)
(***************************************************************************)
Before(n) == SubSeq(cmd, 1, n)
After(n)  == SubSeq(cmd, n + 1, Len(cmd))

\* Mutant: the line may fill the array, without room for the NUL.
LineFullOffByOne == Len(cmd) >= CmdSize
LineFull         == Len(cmd) >= CmdSize - 1

\* The byte, then the rest of the line, then back to where the rest begins.
cmd_append(b) ==
  IF LineFull THEN UNCHANGED <<cmd, cmdpos, term>>
  ELSE /\ cmd' = Before(cmdpos) \o <<b>> \o After(cmdpos)
       /\ cmdpos' = cmdpos + 1
       /\ term' = MoveTo(Puts(term, <<b>> \o After(cmdpos)), term.cur + 1)

\* Mutant: the rest of the line is drawn, but its last byte stays.
DrawWithoutErase(t, rest) == MoveTo(Puts(t, rest), t.cur)
DrawRest(t, rest)         == MoveTo(EraseRest(Puts(t, rest)), t.cur)

\* cmd_del with the cursor at p, on terminal t.
cmd_del(p, t) ==
  /\ cmdpos' = p
  /\ IF p = Len(cmd) THEN cmd' = cmd /\ term' = t
     ELSE cmd' = Before(p) \o After(p + 1) /\ term' = DrawRest(t, After(p + 1))

Backspace ==
  IF cmdpos = 0 THEN UNCHANGED <<cmd, cmdpos, term>>
                ELSE cmd_del(cmdpos - 1, MoveTo(term, term.cur - 1))

\* cmd_set draws the line anew, so that nothing else is left in it.
cmd_set(line, p) ==
  LET q == IF p < Len(line) THEN p ELSE Len(line) IN
  /\ cmd' = line /\ cmdpos' = q
  /\ term' = [text |-> line, cur |-> q]
  /\ junk' = FALSE

\* A new prompt.
Fresh == cmd' = <<>> /\ cmdpos' = 0 /\ history_pos' = 0
         /\ term' = NewLine /\ junk' = FALSE

-----------------------------------------------------------------------------
(***************************************************************************)
(* The history.                                                            *)
(***************************************************************************)
\* The bytes of the entries from k on, each with its NUL; <<j, i>> is byte i of
\* entry j.
Used(k) == Cardinality(UNION {{j} \X (0..Len(history[j])) : j \in k..Len(history)})

Room(k) == Used(k) + Len(cmd) + 1 <= HistorySize

IsLast == history # <<>> /\ Last(history) = cmd

\* The oldest entries give way; a repeated command is kept once.
history_add ==
  history' =
    IF cmd = <<>> \/ IsLast THEN history
    ELSE LET first == CHOOSE k \in 1..Len(history) + 1 :
                        Room(k) /\ \A j \in 1..k-1 : ~Room(j)
         IN Append(SubSeq(history, first, Len(history)), cmd)

\* history_get: k = 0 is the newest.
Entry(k) == history[Len(history) - k]

\* The line is kept without a NUL, over what was kept before.
Keep == IF history_pos = 0
          THEN /\ orig_cmd' = [i \in 1..CmdSize |-> IF i <= Len(cmd) THEN cmd[i]
                                                                     ELSE orig_cmd[i]]
               /\ orig_cmdlen' = Len(cmd)
          ELSE UNCHANGED <<orig_cmd, orig_cmdlen>>

HasOlder == history_pos < Len(history)

history_prev ==
  /\ Keep
  /\ IF HasOlder
       THEN /\ history_pos' = history_pos + 1
            /\ cmd_set(Entry(history_pos), Len(Entry(history_pos)))
       ELSE UNCHANGED <<history_pos, cmd, cmdpos, tvars>>

\* What strlen sees in orig_cmd.
Kept == LET ends == {i \in 1..CmdSize : orig_cmd[i] = NoByte} IN
        SubSeq(orig_cmd, 1, (CHOOSE i \in ends : \A j \in ends : i <= j) - 1)

history_next ==
  /\ UNCHANGED <<orig_cmd, orig_cmdlen>>
  /\ IF history_pos = 0 THEN UNCHANGED <<history_pos, cmd, cmdpos, tvars>>
     ELSE /\ history_pos' = history_pos - 1
          /\ IF history_pos = 1 THEN cmd_set(Kept, orig_cmdlen)
             ELSE cmd_set(Entry(history_pos - 2), Len(Entry(history_pos - 2)))

-----------------------------------------------------------------------------
(***************************************************************************)
(* The bytes.                                                              *)
(***************************************************************************)
EscEnd == escape_state' = 0 /\ escape_seq' = <<>>

\* What a complete sequence means; one that did not fit means nothing.
Meaning(s) ==
  IF Len(s) >= EscSize - 1 THEN "none"
  ELSE CASE s[1] = "A" -> "up"   [] s[1] = "B" -> "down"
         [] s[1] = "C" -> "right" [] s[1] = "D" -> "left"
         [] s[1] = "3" /\ Len(s) > 1 /\ s[2] = "~" -> "delete"
         [] OTHER -> "none"

escape_seq_process(s) ==
  LET m == Meaning(s) IN
  /\ EscEnd
  /\ \/ m = "up" /\ history_prev /\ UNCHANGED history
     \/ m = "down" /\ history_next /\ UNCHANGED history
     \/ /\ m \in {"left", "right"}
        /\ cmdpos' = IF m = "left" THEN (IF cmdpos > 0 THEN cmdpos - 1 ELSE 0)
                     ELSE IF cmdpos < Len(cmd) THEN cmdpos + 1 ELSE cmdpos
        /\ term' = MoveTo(term, term.cur + cmdpos' - cmdpos)
        /\ UNCHANGED <<cmd, hvars, junk>>
     \/ m = "delete" /\ cmd_del(cmdpos, term) /\ UNCHANGED <<hvars, junk>>
     \/ m = "none" /\ UNCHANGED <<cmd, cmdpos, hvars, tvars>>

\* Something is printed in the middle of the line.
Complain == junk' = TRUE /\ UNCHANGED <<cmd, cmdpos, hvars, term>>

Appended(b) == IF Len(escape_seq) >= EscSize - 1 THEN escape_seq
                                                 ELSE Append(escape_seq, b)
More(b, s) == /\ escape_seq' = Appended(b) /\ escape_state' = s
              /\ UNCHANGED <<cmd, cmdpos, hvars, tvars>>

\* consume_normal.
Normal(b) ==
  \/ b \in Printable /\ b \in Typed /\ cmd_append(b) /\ UNCHANGED <<evars, hvars, junk>>
  \/ b = "backspace" /\ Backspace /\ UNCHANGED <<evars, hvars, junk>>
  \/ b = "^A" /\ cmd_set(cmd, 0) /\ UNCHANGED <<evars, hvars>>
  \/ b = "^E" /\ cmd_set(cmd, Len(cmd)) /\ UNCHANGED <<evars, hvars>>
  \/ b = "^C" /\ Fresh /\ UNCHANGED <<evars, history, orig_cmd, orig_cmdlen>>
  \/ b = "return" /\ history_add /\ Fresh /\ UNCHANGED <<evars, orig_cmd, orig_cmdlen>>
  \/ b = "esc" /\ escape_state' = 1
     /\ UNCHANGED <<escape_seq, cmd, cmdpos, hvars, tvars>>
  \/ b = "ctl" /\ Complain /\ UNCHANGED evars

\* After ESC only the bytes 0x40 to 0x5f count; others are taken as if there had
\* been no ESC, and the state stays.
AfterEsc(b) ==
  \/ b = "[" /\ escape_state' = 2
     /\ UNCHANGED <<escape_seq, cmd, cmdpos, hvars, tvars>>
  \/ b \in Upper \ {"["} /\ escape_state' = 0 /\ Complain /\ UNCHANGED escape_seq
  \/ b \notin Upper /\ Normal(b)

InSequence(b) ==
  \/ b \notin Printable /\ EscEnd /\ Complain
  \/ b \in Final /\ escape_seq_process(Appended(b))
  \/ b \in Between /\ More(b, 3)
  \/ b \in Printable \ (Final \cup Between) /\ More(b, 2)

AfterBetween(b) ==
  \/ b \notin Final \cup Between /\ EscEnd /\ Complain
  \/ b \in Final /\ escape_seq_process(Appended(b))
  \/ b \in Between /\ More(b, 3)

debug_process(b) ==
  \/ escape_state = 0 /\ Normal(b)
  \/ escape_state = 1 /\ AfterEsc(b)
  \/ escape_state = 2 /\ InSequence(b)
  \/ escape_state = 3 /\ AfterBetween(b)

DNext == \E b \in Bytes : debug_process(b)
DSpec == DInit /\ [][DNext]_dvars

-----------------------------------------------------------------------------
\* The arrays are never written behind their ends, and there is a NUL in
\* orig_cmd although nobody writes one (debug.c:33, 68, 109-121, 127-133, 148).
ArraysInBounds ==
  /\ cmdpos \in 0..Len(cmd) /\ Len(cmd) < CmdSize
  /\ Used(1) <= HistorySize
  /\ \E i \in 1..CmdSize : orig_cmd[i] = NoByte
  /\ Len(escape_seq) < EscSize

\* The user edits what is on the screen: line and cursor of the terminal are
\* those in memory, until something is printed into the line (debug.c:36-46,
\* 56-63, 132-139, 185-196, 296-299).
ScreenShowsLine == ~junk => term = [text |-> cmd, cur |-> cmdpos]

\* The position in the history is one it has, however many old commands had to
\* give way, so that history_next never gets NULL (debug.c:109-118, 173, 273).
PositionInHistory == history_pos <= Len(history)

\* Nothing is read or written outside the arrays: both of the above
\* (debug.c:33, 68, 109-148, 173, 273).
InBounds == ArraysInBounds /\ PositionInHistory
=============================================================================
