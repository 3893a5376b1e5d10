------------------------------ MODULE CoreState ------------------------------
(***************************************************************************)
(* The state machine benchmark of CoreMark (coremark/core_state.c).  The   *)
(* text is a sequence of byte codes, so that text[i + 1] is the byte at    *)
(* offset i of the block and p, a position, starts at 1.                   *)
(***************************************************************************)
EXTENDS CoreUtil, Sequences, Bitwise

Comma  == 44
Signs  == {43, 45}
Dot    == 46
Exps   == {69, 101}
ee_isdigit(c) == c \in 48..57

(* The states in the order of enum CORE_STATE.                             *)
CoreStates == <<"START", "INVALID", "S1", "S2", "INT", "FLOAT", "EXPONENT",
                "SCIENTIFIC">>
NoCounts == [START |-> 0, INVALID |-> 0, S1 |-> 0, S2 |-> 0, INT |-> 0,
             FLOAT |-> 0, EXPONENT |-> 0, SCIENTIFIC |-> 0]

(* The switch of core_state_transition: the state after symbol c.          *)
StateAfter(state, c) ==
    CASE state \in {"START", "S1"} /\ ee_isdigit(c)            -> "INT"
      [] state \in {"START", "S1"} /\ c = Dot                  -> "FLOAT"
      [] state = "START" /\ c \in Signs                        -> "S1"
      [] state = "INT" /\ ee_isdigit(c)                        -> "INT"
      [] state = "INT" /\ c = Dot                              -> "FLOAT"
      [] state = "FLOAT" /\ ee_isdigit(c)                      -> "FLOAT"
      [] state = "FLOAT" /\ c \in Exps                         -> "S2"
      [] state = "S2" /\ c \in Signs                           -> "EXPONENT"
      [] state \in {"EXPONENT", "SCIENTIFIC"} /\ ee_isdigit(c) -> "SCIENTIFIC"
      [] OTHER                                                 -> "INVALID"

(* One step counts the state it leaves, except that staying in INT or      *)
(* FLOAT counts nothing; an invalid symbol in START or SCIENTIFIC counts   *)
(* as INVALID.                                                             *)
Counted(track, state, next) ==
    LET left == IF state # "SCIENTIFIC" /\ next # state
                THEN [track EXCEPT ![state] = @ + 1] ELSE track
    IN  IF state \in {"START", "SCIENTIFIC"} /\ next = "INVALID"
        THEN [left EXCEPT !["INVALID"] = @ + 1] ELSE left

(* One token from position p: the position after it, the state it ended    *)
(* in and the transition counts.  The scan stops at a zero byte, behind a  *)
(* comma, or behind the symbol that made the token invalid.                *)
RECURSIVE core_state_transition(_, _, _, _)
core_state_transition(text, p, state, track) ==
    IF text[p] = 0 \/ state = "INVALID"
    THEN [p |-> p, state |-> state, track |-> track]
    ELSE IF text[p] = Comma
    THEN [p |-> p + 1, state |-> state, track |-> track]
    ELSE LET next == StateAfter(state, text[p])
         IN  core_state_transition(text, p + 1, next, Counted(track, state, next))

(* At most n tokens up to the first zero byte, added to the counts in acc. *)
RECURSIVE RunStateMachine(_, _, _)
RunStateMachine(text, acc, n) ==
    IF text[acc.p] = 0 THEN acc
    ELSE IF n > 1
    THEN RunStateMachine(text, RunStateMachine(text, acc, n \div 2), n - n \div 2)
    ELSE LET t == core_state_transition(text, acc.p, "START", acc.track)
         IN  [p |-> t.p, final |-> [acc.final EXCEPT ![t.state] = @ + 1],
              track |-> t.track]

(* Every step-th byte that is not a comma is combined with the seed.       *)
Corrupt(text, seed, step) ==
    [i \in 1..Len(text) |->
       IF (i - 1) % step = 0 /\ text[i] # Comma
       THEN text[i] ^^ (U16(seed) % 256) ELSE text[i]]

(* The block after the corruption, and after it is undone.                 *)
CorruptedText(text, seed1, step) == Corrupt(text, seed1, step)
TextAfterBench(text, seed1, seed2, step) ==
    Corrupt(Corrupt(text, seed1, step), seed2, step)

(* The counts of the two runs of core_bench_state over the text, before    *)
(* and after the corruption: of each state how many tokens ended in it and *)
(* how many transitions left it.                                           *)
CountsOfBench(text, seed1, step) ==
    LET once  == RunStateMachine(text, [p |-> 1, final |-> NoCounts,
                                        track |-> NoCounts], Len(text))
        twice == RunStateMachine(CorruptedText(text, seed1, step),
                                 [once EXCEPT !.p = 1], Len(text))
    IN  [i \in 1..16 |-> LET state == CoreStates[(i + 1) \div 2]
                         IN  IF i % 2 = 1 THEN twice.final[state] ELSE twice.track[state]]

-----------------------------------------------------------------------------
intpat   == << <<53,48,49,50>>, <<49,50,51,52>>, <<45,56,55,52>>, <<43,49,50,50>> >>
floatpat == << <<51,53,46,53,52,52,48,48>>, <<46,49,50,51,52,53,48,48>>,
               <<45,49,49,48,46,55,48,48>>, <<43,48,46,54,52,52,48,48>> >>
scipat   == << <<53,46,53,48,48,101,43,51>>, <<45,46,49,50,51,101,45,50>>,
               <<45,56,55,101,43,56,51,50>>, <<43,48,46,54,101,45,49,50>> >>
errpat   == << <<84,48,46,51,101,45,49,70>>, <<45,84,46,84,43,43,84,113>>,
               <<49,84,51,46,52,101,52,122>>, <<51,52,46,48,101,45,84,94>> >>

(* The pattern a seed selects: three bits the kind, two the pattern.       *)
PatternOf(seed) ==
    LET kind == U16(seed) % 8
        nr   == ((U16(seed) \div 8) % 4) + 1
    IN  IF kind \in 0..2 THEN intpat[nr]
        ELSE IF kind \in 3..4 THEN floatpat[nr]
        ELSE IF kind \in 5..6 THEN scipat[nr] ELSE errpat[nr]

(* A pattern is written, with a comma behind it, while one more byte than  *)
(* the pattern fits below the last byte of the block; the next seed then   *)
(* selects the next pattern.  At most n patterns.                          *)
RECURSIVE FillWithPatterns(_, _, _)
FillWithPatterns(size, w, n) ==
    IF Len(w.text) + Len(w.buf) + 1 >= size - 1 THEN w
    ELSE IF n > 1
    THEN FillWithPatterns(size, FillWithPatterns(size, w, n \div 2), n - n \div 2)
    ELSE [seed |-> w.seed + 1, buf |-> PatternOf(w.seed + 1),
          text |-> IF w.buf = <<>> THEN w.text ELSE Append(w.text \o w.buf, Comma)]

(* The rest of the block is zero.                                          *)
Filled(size, seed, limit) ==
    LET w == FillWithPatterns(limit, [seed |-> seed, buf |-> <<>>, text |-> <<>>],
                              size)
    IN  w.text \o [i \in 1..(size - Len(w.text)) |-> 0]

\* Mutant: the size is not reduced by one, so a pattern may end one byte later.
core_init_state_NoSpare(size, seed) == Filled(size, seed, size + 1)
core_init_state(size, seed) == Filled(size, seed, size)
=============================================================================
