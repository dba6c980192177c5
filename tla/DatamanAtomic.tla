--------------------------- MODULE DatamanAtomic ---------------------------
(***************************************************************************)
(* What dataman.h promises its callers: a call either fails and changes    *)
(* nothing, or takes effect at one instant between its invocation and its  *)
(* return, on a store indexed by (item, index).                            *)
(***************************************************************************)
EXTENDS Integers

CONSTANTS Clients, Requests, Addresses, Outcomes(_, _)

VARIABLES store,    \* (item, index) -> stored record
          call,     \* per client: its call in progress, or none
          phase,    \* per client: "idle", "pending" or "done"
          answer    \* per client: result of its call, 0 before there is one

vars == <<store, call, phase, answer>>

NoCall == [func |-> "none"]

Init == /\ store \in [Addresses -> {[len |-> 0, pers |-> 0, val |-> -2]}]
        /\ call = [c \in Clients |-> NoCall]
        /\ phase = [c \in Clients |-> "idle"]
        /\ answer = [c \in Clients |-> 0]

Invoke(c, r) == /\ phase[c] = "idle"
                /\ phase' = [phase EXCEPT ![c] = "pending"]
                /\ call' = [call EXCEPT ![c] = r]
                /\ answer' = [answer EXCEPT ![c] = 0]
                /\ UNCHANGED store

\* Not started, shutting down, or out of memory
Fail(c) == /\ phase[c] \in {"idle", "pending"}
           /\ phase' = [phase EXCEPT ![c] = "idle"]
           /\ call' = [call EXCEPT ![c] = NoCall]
           /\ answer' = [answer EXCEPT ![c] = -1]
           /\ UNCHANGED store

Perform(c) == /\ phase[c] = "pending"
              /\ \E out \in Outcomes(store, call[c]) :
                    store' = out[1] /\ answer' = [answer EXCEPT ![c] = out[2]]
              /\ phase' = [phase EXCEPT ![c] = "done"]
              /\ UNCHANGED call

Return(c) == /\ phase[c] = "done"
             /\ phase' = [phase EXCEPT ![c] = "idle"]
             /\ call' = [call EXCEPT ![c] = NoCall]
             /\ UNCHANGED <<store, answer>>

Next == \E c \in Clients :
            (\E r \in Requests : Invoke(c, r)) \/ Fail(c) \/ Perform(c) \/ Return(c)

Spec == Init /\ [][Next]_vars
=============================================================================
