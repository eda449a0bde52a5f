--------------------------- MODULE LineDiscipline ----------------------------
(***************************************************************************)
(* What the console's input promises: what is typed goes to a line being   *)
(* edited, which is handed over whole at its end (or when there is no more *)
(* room) and can be edited only until then; readers take what was handed   *)
(* over in the order it was typed.                                         *)
(***************************************************************************)
EXTENDS Integers, Sequences

CONSTANTS Char, Ends, Capacity   \* Ends: the characters that end a line

VARIABLES ready,   \* handed over, not read yet
          edit     \* the line being edited

lvars == <<ready, edit>>

LInit == ready = << >> /\ edit = << >>

Typed(c) ==
  LET line == Append(edit, c)
      n == Len(ready) + Len(line)
  IN /\ n <= Capacity
     /\ IF c \in Ends \/ n = Capacity
        THEN ready' = ready \o line /\ edit' = << >>
        ELSE edit' = line /\ UNCHANGED ready

EraseLast ==
  /\ edit # << >>
  /\ edit' = SubSeq(edit, 1, Len(edit) - 1)
  /\ UNCHANGED ready

EraseLine == edit' = << >> /\ UNCHANGED ready

Taken == ready # << >> /\ ready' = Tail(ready) /\ UNCHANGED edit

LNext == (\E c \in Char : Typed(c)) \/ EraseLast \/ EraseLine \/ Taken

LSpec == LInit /\ [][LNext]_lvars
=============================================================================
