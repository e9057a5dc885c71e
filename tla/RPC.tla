-------------------------------- MODULE RPC --------------------------------
(***************************************************************************)
(* What SVR_Comm_sendMessage(message, true) promises to its caller ("this  *)
(* call will block until a response is available ... The response to the   *)
(* message"): each thread has at most one call open, the peer serves a     *)
(* call at most once, and the call returns only its own answer, only after *)
(* it was served.  A connection may lose an answer for good.               *)
(***************************************************************************)
EXTENDS Naturals

CONSTANTS Threads,    \* the client's threads
          MaxCalls,   \* bound: the number of calls each thread makes
          None        \* the result of a thread that has made no call

VARIABLES calls,   \* calls[t]: how many calls t has made; <<t, calls[t]>> is the last
          open,    \* open[t]: t is inside its last call
          served,  \* served[t]: the peer has served t's open call
          result   \* result[t]: the call that the answer t got last belongs to

vars == <<calls, open, served, result>>

Init == /\ calls  = [t \in Threads |-> 0]
        /\ open   = [t \in Threads |-> FALSE]
        /\ served = [t \in Threads |-> FALSE]
        /\ result = [t \in Threads |-> None]

Call(t) == /\ ~open[t] /\ calls[t] < MaxCalls
           /\ calls' = [calls EXCEPT ![t] = @ + 1]
           /\ open'  = [open EXCEPT ![t] = TRUE]
           /\ UNCHANGED <<served, result>>

Serve(t) == /\ open[t] /\ ~served[t]
            /\ served' = [served EXCEPT ![t] = TRUE]
            /\ UNCHANGED <<calls, open, result>>

Return(t) == /\ open[t] /\ served[t]
             /\ open'   = [open EXCEPT ![t] = FALSE]
             /\ served' = [served EXCEPT ![t] = FALSE]
             /\ result' = [result EXCEPT ![t] = <<t, calls[t]>>]
             /\ UNCHANGED calls

\* Answers on the way are lost with the connection.
Lose == /\ \E T \in SUBSET Threads :
             served' = [t \in Threads |-> served[t] /\ t \notin T]
        /\ UNCHANGED <<calls, open, result>>

Next == \/ \E t \in Threads : Call(t) \/ Serve(t) \/ Return(t)
        \/ Lose

Spec == Init /\ [][Next]_vars
=============================================================================
