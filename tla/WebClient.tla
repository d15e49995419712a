---------------------------- MODULE WebClient ----------------------------
(***************************************************************************)
(* What the screens of the web application share: cheques, the person at   *)
(* the screen and everybody else, and the gate that every write passes.    *)
(*                                                                         *)
(* A screen keeps a copy of what the server told it last and asks again    *)
(* every few seconds; a click or a key acts on that copy.  The modules of  *)
(* the screens show what can come of the two differing.                    *)
(***************************************************************************)
EXTENDS Integers, FiniteSets

CONSTANTS
  Items,       \* cheques, numbered in the order of their deadlines; on the pages of
               \* the settings, the changes proposed to one
  Me,          \* the person at the screen
  Other,       \* any other member of staff
  None,
  MaxPosts     \* bound on the requests a screen has under way

ASSUME ItemsAreNumbers == Items \subseteq Nat /\ IsFiniteSet(Items)
ASSUME PeopleAssumption == Cardinality({Me, Other, None}) = 3
                           /\ Items \cap {Me, Other, None} = {}
ASSUME PostBound == MaxPosts \in Nat

People == {Me, Other}
Nobody == [i \in Items |-> None]

(* The header a page adds to a write: the token the sign-in stored, or     *)
(* nothing on pages that build their own request.                          *)
csrfHeader(page, token) == IF page.sendsToken THEN token ELSE None

(* AuthenticationMiddleware lets a write through when it presents the      *)
(* token of the session its cookie belongs to.                             *)
Admits(sessionToken, presented) == presented # None /\ presented = sessionToken
===========================================================================
