----------------------------- MODULE FourEyes -----------------------------
(***************************************************************************)
(* What the bank asks of a decision that takes two people: somebody gives  *)
(* a word, somebody else - or, on the first person's word, the system -    *)
(* settles it, and it is settled once.  Nothing is asked once the switch   *)
(* for it is off.  OutwardStage implements this specification for the      *)
(* decision on an outward cheque, ConfigChange for each change of a        *)
(* setting.                                                                *)
(***************************************************************************)
EXTENDS Naturals

CONSTANTS Staff, System, Actions, None

VARIABLES word,      \* who spoke first and what they said
          filed,     \* how often a decision was put into effect, which and by whom
          on         \* the switch has been on all the time

vars == <<word, filed, on>>

NoWord  == [by |-> None, action |-> None]
Unfiled == [times |-> 0, by |-> None, action |-> None]
Nothing == word = NoWord /\ filed = Unfiled

Speak(m, a) ==
  /\ word = NoWord
  /\ word' = [by |-> m, action |-> a]
  /\ UNCHANGED <<filed, on>>

Settle(c, a) ==
  /\ word # NoWord /\ filed = Unfiled
  /\ c # word.by
  /\ c = System => a = word.action
  /\ filed' = [times |-> 1, by |-> c, action |-> a]
  /\ UNCHANGED <<word, on>>

SwitchOff == on' = FALSE /\ UNCHANGED <<word, filed>>

Unasked(c, a) ==
  /\ ~on
  /\ filed' = [times |-> filed.times + 1, by |-> c, action |-> a]
  /\ UNCHANGED <<word, on>>

Next == \/ \E m \in Staff, a \in Actions : Speak(m, a)
        \/ \E c \in Staff \cup {System}, a \in Actions : Settle(c, a) \/ Unasked(c, a)
        \/ SwitchOff

Spec == Nothing /\ on = TRUE /\ [][Next]_vars
===========================================================================
