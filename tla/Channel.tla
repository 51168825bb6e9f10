------------------------------- MODULE Channel -------------------------------
(***************************************************************************)
(* What the transmissions and the poller promise of the receiving side of  *)
(* a connection: every byte that arrives is taken, in spite of sockets     *)
(* that do not block and events that are told once; and a connection that  *)
(* the peer closed is dropped, but not before its last byte was taken.     *)
(* Transport implements this module.                                       *)
(***************************************************************************)
EXTENDS Naturals

CONSTANT Conn

VARIABLES
  up,      \* the connections a slot holds
  coming,  \* how many bytes arrived and were not taken
  end      \* how the peer ended the connection: "no", "eof" or "reset"

vars == <<up, coming, end>>

TypeOK ==
  /\ up \subseteq Conn
  /\ coming \in [Conn -> Nat]
  /\ end \in [Conn -> {"no", "eof", "reset"}]

Init ==
  /\ up = {}
  /\ coming = [c \in Conn |-> 0]
  /\ end = [c \in Conn |-> "no"]

\* peer_conn_init.
Open(c) ==
  /\ c \notin up
  /\ up' = up \cup {c}
  /\ coming' = [coming EXCEPT ![c] = 0]
  /\ end' = [end EXCEPT ![c] = "no"]

Arrive(c) ==
  /\ c \in up
  /\ end[c] = "no"
  /\ coming' = [coming EXCEPT ![c] = @ + 1]
  /\ UNCHANGED <<up, end>>

End(c) ==
  /\ c \in up
  /\ \/ end[c] = "no" /\ end' = [end EXCEPT ![c] = "eof"]
     \/ end[c] # "reset" /\ end' = [end EXCEPT ![c] = "reset"]
  /\ UNCHANGED <<up, coming>>

\* The transmission under way takes some of what is there.
Take(c) ==
  /\ c \in up
  /\ \E n \in 1 .. coming[c] : coming' = [coming EXCEPT ![c] = @ - n]
  /\ UNCHANGED <<up, end>>

\* A reset may lose what was not taken, on several connections at a time.
Lose ==
  /\ \E S \in SUBSET {c \in up : end[c] = "reset"} :
       coming' = [c \in Conn |-> IF c \in S THEN 0 ELSE coming[c]]
  /\ UNCHANGED <<up, end>>

\* A slot lets go of a connection the peer closed, when all was taken.
Finish(c) ==
  /\ c \in up
  /\ end[c] = "eof"
  /\ coming[c] = 0
  /\ up' = up \ {c}
  /\ end' = [end EXCEPT ![c] = "no"]
  /\ UNCHANGED coming

\* A slot lets go of a connection that was reset.
Drop(c) ==
  /\ c \in up
  /\ end[c] = "reset"
  /\ up' = up \ {c}
  /\ coming' = [coming EXCEPT ![c] = 0]
  /\ end' = [end EXCEPT ![c] = "no"]

Next ==
  \/ \E c \in Conn :
       Open(c) \/ Arrive(c) \/ End(c) \/ Take(c) \/ Finish(c) \/ Drop(c)
  \/ Lose

\* What happens in order, and what happens in the end.
Safety == Init /\ [][Next]_vars

Spec == Safety /\ \A c \in Conn : WF_vars(Take(c)) /\ WF_vars(Finish(c))
=============================================================================
