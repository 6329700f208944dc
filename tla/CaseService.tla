----------------------------- MODULE CaseService -----------------------------
(***************************************************************************)
(* What somebody who opens cases may rely on, without accounts, messages   *)
(* or commitments.  A client makes one call at a time, and a call opens at *)
(* most one case.  The client is told of the very case that its call has   *)
(* opened; a call that is refused has opened none and never will; and one  *)
(* that ends in doubt has opened its case, or not, or opens it later,      *)
(* behind the back of its client.  No case is opened twice or lost.        *)
(***************************************************************************)
EXTENDS Naturals

CONSTANTS Client, Case

VARIABLES
    asking,     \* the clients that have asked for a case and wait
    opened,     \* client -> what its call has opened: one case at most
    late,       \* client -> how many doubtful calls may still open theirs
    owned,      \* client -> the cases that were opened for it
    told        \* client -> the cases it was told of

serviceVars == <<asking, opened, late, owned, told>>

Init == /\ asking = {}
        /\ opened = [k \in Client |-> {}]
        /\ late = [k \in Client |-> 0]
        /\ owned = [k \in Client |-> {}]
        /\ told = [k \in Client |-> {}]

Fresh(a) == \A k \in Client : a \notin owned[k]

Ask(k) == /\ k \notin asking
          /\ asking' = asking \cup {k}
          /\ UNCHANGED <<opened, late, owned, told>>

Open(k, a) == /\ k \in asking
              /\ opened[k] = {}
              /\ Fresh(a)
              /\ opened' = [opened EXCEPT ![k] = {a}]
              /\ owned' = [owned EXCEPT ![k] = @ \cup {a}]
              /\ UNCHANGED <<asking, late, told>>

OpenLate(k, a) == /\ late[k] > 0
                  /\ Fresh(a)
                  /\ late' = [late EXCEPT ![k] = @ - 1]
                  /\ owned' = [owned EXCEPT ![k] = @ \cup {a}]
                  /\ UNCHANGED <<asking, opened, told>>

\* The call is over.
Return(k) == /\ k \in asking
             /\ asking' = asking \ {k}
             /\ opened' = [opened EXCEPT ![k] = {}]

Tell(k) == /\ Return(k)
           /\ opened[k] # {}
           /\ told' = [told EXCEPT ![k] = @ \cup opened[k]]
           /\ UNCHANGED <<late, owned>>

Refuse(k) == /\ Return(k)
             /\ opened[k] = {}
             /\ UNCHANGED <<late, owned, told>>

Doubt(k) == /\ Return(k)
            /\ \/ UNCHANGED late
               \/ opened[k] = {} /\ late' = [late EXCEPT ![k] = @ + 1]
            /\ UNCHANGED <<owned, told>>

\* A doubtful call will not open its case any more.
Lose(k) == /\ late[k] > 0
           /\ late' = [late EXCEPT ![k] = @ - 1]
           /\ UNCHANGED <<asking, opened, owned, told>>

Next == \E k \in Client : \/ Ask(k) \/ Tell(k) \/ Refuse(k) \/ Doubt(k)
                          \/ Lose(k)
                          \/ \E a \in Case : Open(k, a) \/ OpenLate(k, a)

Spec == Init /\ [][Next]_serviceVars
==============================================================================
