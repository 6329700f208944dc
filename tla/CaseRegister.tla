---------------------------- MODULE CaseRegister ----------------------------
(***************************************************************************)
(* What the program promises about cases, without accounts, addresses or   *)
(* transactions: every community has a register of the cases opened in it. *)
(* The register is append-only, the number of a case is its position, what *)
(* was entered (author and name) is never altered, and only members of the *)
(* community enter cases.  A member is never struck off: the program can   *)
(* make a reporter inactive but not remove it.                             *)
(*                                                                         *)
(* A step is what one transaction of several instructions may do at once:  *)
(* found communities, admit members and enter cases in any number.         *)
(***************************************************************************)
EXTENDS Naturals, Sequences

CONSTANT Capacity       \* the number of case ids

VARIABLES register,     \* community -> sequence of entries [author, name]
          members       \* community -> set of keys

Init == register = << >> /\ members = << >>

\* What community c had before the step: nothing, if it is founded by it.
Entered(c) == IF c \in DOMAIN register THEN register[c] ELSE << >>
Admitted(c) == IF c \in DOMAIN members THEN members[c] ELSE {}

Extends(c) == /\ Len(Entered(c)) <= Len(register'[c])
              /\ Len(register'[c]) <= Capacity
              /\ \A i \in 1 .. Len(Entered(c)) :
                     register'[c][i] = Entered(c)[i]
              /\ \A i \in Len(Entered(c)) + 1 .. Len(register'[c]) :
                     register'[c][i].author \in members'[c]

Next == /\ DOMAIN register \subseteq DOMAIN register'
        /\ DOMAIN members' = DOMAIN register'
        /\ \A c \in DOMAIN register' : /\ Admitted(c) \subseteq members'[c]
                                       /\ Extends(c)

Spec == Init /\ [][Next]_<<register, members>>
=============================================================================
