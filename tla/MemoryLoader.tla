---------------------------- MODULE MemoryLoader ----------------------------
(***************************************************************************)
(* What the PC may expect of the UART host: the commands it has sent are   *)
(* performed on the memory in the order they were sent, each exactly once, *)
(* and every read is answered, byte by byte, in the same order.            *)
(*                                                                         *)
(* A command is [read, address, word]; a word is a sequence of bytes, the  *)
(* low one first.  Within one step a command may be accepted, another      *)
(* performed and a byte sent.  Module UartHost implements this             *)
(* specification.                                                          *)
(***************************************************************************)
EXTENDS Integers, Sequences

CONSTANTS
  Commands,  \* the commands the PC sends
  Cleared,   \* word at every address before anything is written
  NoByte     \* the line from the host to the PC carries nothing

Address == {c.address : c \in Commands}

VARIABLES
  todo,      \* commands accepted and not performed
  memory,
  owed,      \* bytes the PC still has to get
  txd,       \* byte that began on the line to the PC in the last step
  resets     \* resets so far

vars == <<todo, memory, owed, txd, resets>>

Init ==
  /\ todo = << >>
  /\ memory = [a \in Address |-> Cleared]
  /\ owed = << >>
  /\ txd = NoByte
  /\ resets = 0

\* A command may be accepted while the ones before it, rest, are left.
AcceptOrNot(rest) ==
  todo' = rest \/ \E c \in Commands : todo' = Append(rest, c)

\* A byte of the answer may begin.
SendOrNot(answer) ==
  \/ txd' = NoByte /\ owed' = answer
  \/ answer # << >> /\ txd' = Head(answer) /\ owed' = Tail(answer)

\* The oldest command is performed.
Write ==
  /\ todo # << >> /\ ~Head(todo).read
  /\ memory' = [memory EXCEPT ![Head(todo).address] = Head(todo).word]
  /\ AcceptOrNot(Tail(todo)) /\ SendOrNot(owed)

Read ==
  /\ todo # << >> /\ Head(todo).read
  /\ UNCHANGED memory
  /\ AcceptOrNot(Tail(todo)) /\ SendOrNot(owed \o memory[Head(todo).address])

NoAccess ==
  /\ UNCHANGED memory
  /\ AcceptOrNot(todo) /\ SendOrNot(owed)

\* A reset forgets what is under way; the memory keeps its contents.
Reset ==
  /\ todo' = << >>
  /\ owed' = << >>
  /\ txd' = NoByte
  /\ resets' = resets + 1
  /\ UNCHANGED memory

Next ==
  \/ Reset
  \/ (Write \/ Read \/ NoAccess) /\ UNCHANGED resets

Spec == Init /\ [][Next]_vars
=============================================================================
