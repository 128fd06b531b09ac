------------------------------- MODULE Shell --------------------------------
(***************************************************************************)
(* The shell, programs/potatoshell.c, on the console: the loop of _start,  *)
(* run_command, and the way of its output through write, sys_write and     *)
(* tty_write to the screen.  Keys come from the terminal (Tty) in order,   *)
(* one per call of read.  There is no fork: a program that is found takes  *)
(* the place of the shell, and after its _exit only the idle task is left. *)
(***************************************************************************)
EXTENDS Console

CONSTANTS
  INPUT_MAX_LENGTH,    \* 256, where the 8-bit input_char_count wraps
  Key,                 \* characters from the keyboard
  Prompt, NotFound,    \* the shell's messages
  Pid, Message, Done,  \* of sys_execve, hello.c and exit_task
  Program, Self        \* the names of programs in /bin; the shell's own

ASSUME ShellAssumption ==
  /\ INPUT_MAX_LENGTH \in Nat \ {0}
  /\ NUL \notin Key
  /\ \A s \in {Prompt, NotFound, Pid, Message, Done} : s \in Seq(Range(s))
  /\ Range(Prompt) \cap {NL, BS, NUL} = {}
  /\ Len(Prompt) + INPUT_MAX_LENGTH <= CELLS - CONSOLE_WIDTH

VARIABLES
  input, input_char_count,
  running,   \* what the task executes: "start", "shell", "program", "exit", "idle"
  command,   \* history: the last command run
  line,      \* history: the line as its user edits it; one that fills the array is lost
  full       \* history: this happened since the last prompt

history == <<command, line, full>>
shellVars == <<con, input, input_char_count, running, history>>

----------------------------------------------------------------------------
tty_write(c, s) == console_puts(c, s)

sys_write(c, fd, s) == IF fd \in {1, 2} THEN tty_write(c, s) ELSE c

write(c, fd, s) == sys_write(c, fd, s)

(* The C string in an array.                                               *)
CString(array) ==
  LET n == Min({i \in DOMAIN array : array[i] = NUL})
  IN  [i \in 1..n |-> array[i - 1]]

Fresh == [i \in 0..(INPUT_MAX_LENGTH - 1) |-> NUL]

ShellInit ==
  /\ Init
  /\ input = Fresh /\ input_char_count = 0
  /\ running = "start"
  /\ command = <<>> /\ line = <<>> /\ full = FALSE

(* _start up to its loop, on a new stack.                                  *)
start ==
  /\ running = "start" /\ running' = "shell"
  /\ con' = write(con, 1, Prompt)
  /\ input' = Fresh /\ input_char_count' = 0
  /\ UNCHANGED history

(* Bound of the model.                                                     *)
AtBound == Len(con.above) > MAX_SCROLL * CONSOLE_WIDTH

(* read(0, input + input_char_count, 1) returns c.                         *)
read(c) ==
  /\ running = "shell"
  /\ ~AtBound
  /\ input' = [input EXCEPT ![input_char_count] = IF c = NL THEN NUL ELSE c]

(* Mutant of Backspace: without the test for an empty line.                *)
BackspaceUnchecked ==
  /\ read(BS)
  /\ con' = write(con, 1, <<BS>>)
  /\ input_char_count' = (input_char_count + INPUT_MAX_LENGTH - 1) % INPUT_MAX_LENGTH
  /\ line' = SubSeq(line, 1, Len(line) - 1)
  /\ UNCHANGED <<running, command, full>>

Backspace ==
  /\ read(BS)
  /\ IF input_char_count = 0 THEN UNCHANGED <<con, input_char_count>>
     ELSE /\ con' = write(con, 1, <<BS>>)
          /\ input_char_count' = input_char_count - 1
  /\ line' = SubSeq(line, 1, Len(line) - 1)
  /\ UNCHANGED <<running, command, full>>

Ordinary(c) ==
  /\ read(c)
  /\ con' = write(con, 1, <<c>>)
  /\ input_char_count' = (input_char_count + 1) % INPUT_MAX_LENGTH
  /\ LET fills == Len(line) + 1 = INPUT_MAX_LENGTH
     IN  /\ line' = IF fills THEN <<>> ELSE Append(line, c)
         /\ full' = (full \/ fills)
  /\ UNCHANGED <<running, command>>

(* Mutant of Newline: the end of the string is not set.                    *)
NewlineUnterminated ==
  /\ running = "shell" /\ ~AtBound
  /\ LET name == [i \in 1..input_char_count |-> input[i - 1]]
                 \o (IF input[input_char_count] \in {NUL, BS} THEN <<>> ELSE <<input[input_char_count]>>)
     IN  /\ command' = name
         /\ con' = write(con, 1, <<NL>> \o name \o NotFound \o Prompt)
  /\ line' = <<>> /\ full' = FALSE
  /\ input_char_count' = 0
  /\ UNCHANGED <<running, input>>

(* run_command when execve fails: there is no such program, or memory or   *)
(* the disk fails it.                                                      *)
run_command(c, name) == write(write(c, 1, name), 1, NotFound)

(* The end of a line.  An execve that does not fail does not return.       *)
Newline ==
  /\ read(NL)
  /\ LET name == CString(input')
         echo == write(con, 1, <<NL>>)
     IN  \/ /\ input_char_count = 0
            /\ con' = write(echo, 1, Prompt)
            /\ UNCHANGED <<running, command>>
         \/ /\ input_char_count > 0
            /\ command' = name /\ con' = write(run_command(echo, name), 1, Prompt)
            /\ UNCHANGED running
         \/ /\ input_char_count > 0 /\ name \in Program
            /\ command' = name /\ con' = console_puts(echo, Pid)
            /\ running' = IF name = Self THEN "start" ELSE "program"
  /\ input_char_count' = 0
  /\ line' = <<>> /\ full' = FALSE

(* hello.c: its message, then _exit.                                       *)
hello ==
  /\ running = "program"
  /\ con' = write(con, 1, Message)
  /\ running' = "exit"
  /\ UNCHANGED <<input, input_char_count, history>>

sys_exit ==
  /\ running = "exit"
  /\ con' = console_puts(con, Done)
  /\ running' = "idle"
  /\ UNCHANGED <<input, input_char_count, history>>

(* Nobody reads keys any more, or the bound is reached.                    *)
Idle == (running = "idle" \/ AtBound) /\ UNCHANGED shellVars

ShellNext ==
  \/ start \/ Backspace \/ Newline
  \/ \E c \in Key \ {BS, NL} : Ordinary(c)
  \/ hello \/ sys_exit \/ Idle

ShellSpec == ShellInit /\ [][ShellNext]_shellVars
----------------------------------------------------------------------------
(* Properties.                                                             *)

(* The n cells in front of the cursor, also those that left the screen.    *)
Cells(n) ==
  LET cell(i) == IF i <= Len(con.above) THEN con.above[i] ELSE con.vga[i - 1 - Len(con.above)]
  IN  [i \in 1..n |-> cell(Pos - n + i)]

(* Behind the prompt the screen shows the line as it was edited, also      *)
(* where it crosses the end of a screen line or the screen scrolled, and   *)
(* no backspace reaches the prompt, or what was lost by a full array.      *)
LineShown ==
  running = "shell" =>
    LET shown == (IF full THEN <<>> ELSE Prompt) \o line
    IN  Pos >= Len(shown) /\ Cells(Len(shown)) = shown

(* At the end of a line the command that is run is the line that was       *)
(* edited, whatever longer lines, backspaces and earlier commands left in  *)
(* the array, and an empty line runs none; of a line that does not fit it  *)
(* is what came after the array was full.                                  *)
CommandIsLine ==
  [][Newline => command' = IF line = <<>> THEN command ELSE line]_shellVars
=============================================================================
