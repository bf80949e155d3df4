------------------------------ MODULE RpcCalls ------------------------------
(***************************************************************************)
(* What an RPC client promises the program that makes calls on it: the     *)
(* closure of a call is invoked exactly once, with the response or with    *)
(* NULL.  A call made while the client cannot send is answered at once.    *)
(***************************************************************************)
EXTENDS Sequences

CONSTANT Calls

VARIABLES asked,     \* the calls made so far
          answers    \* how the closure of each call was invoked, in order

callVars == <<asked, answers>>

Message == "message"
Null    == "NULL"

CallsInit == asked = {} /\ answers = [c \in Calls |-> <<>>]

Ask(c) == /\ c \notin asked
          /\ asked' = asked \cup {c}
          /\ UNCHANGED answers

\* The client is in a failed state: closure (NULL, closure_data) right away.
AskInVain(c) == /\ c \notin asked
                /\ asked' = asked \cup {c}
                /\ answers' = [answers EXCEPT ![c] = <<Null>>]

Answer(c, a) == /\ c \in asked /\ answers[c] = <<>>
                /\ answers' = [answers EXCEPT ![c] = <<a>>]
                /\ UNCHANGED asked

CallsNext ==
  \E c \in Calls : Ask(c) \/ AskInVain(c) \/ Answer(c, Message) \/ Answer(c, Null)

CallsSpec ==
  /\ CallsInit /\ [][CallsNext]_callVars
  /\ \A c \in Calls : WF_callVars(Answer(c, Message) \/ Answer(c, Null))
=============================================================================
