-------------------------- MODULE PayloadOwnership ---------------------------
(***************************************************************************)
(* What shared payloads promise their user, without reference counts: a    *)
(* payload belongs to the program until it is sent, from then on to the    *)
(* messages that carry it, and its memory is given back exactly when the   *)
(* last of them lets go of it, never before and never twice.               *)
(***************************************************************************)
EXTENDS FiniteSets

CONSTANTS Payloads, Messages

VARIABLES owner,     \* who may touch the payload
          carriers   \* the messages that carry it

vars == <<owner, carriers>>

TypeOK == /\ owner \in [Payloads -> {"nobody", "user", "messages"}]
          /\ carriers \in [Payloads -> SUBSET Messages]

Init == /\ owner = [p \in Payloads |-> "nobody"]
        /\ carriers = [p \in Payloads |-> {}]

Create(p) ==
    /\ owner[p] = "nobody"
    /\ owner' = [owner EXCEPT ![p] = "user"]
    /\ UNCHANGED carriers

\* Only a payload no message carries may be given up by the user.
Discard(p) ==
    /\ owner[p] = "user"
    /\ carriers[p] = {}
    /\ owner' = [owner EXCEPT ![p] = "nobody"]
    /\ UNCHANGED carriers

\* A message carries one payload; attaching the last one hands it over.
Attach(p, m) ==
    /\ owner[p] = "user"
    /\ \A q \in Payloads : m \notin carriers[q]
    /\ carriers' = [carriers EXCEPT ![p] = @ \cup {m}]
    /\ \E o \in {"user", "messages"} : owner' = [owner EXCEPT ![p] = o]

Release(p, m) ==
    /\ owner[p] = "messages"
    /\ m \in carriers[p]
    /\ carriers' = [carriers EXCEPT ![p] = @ \ {m}]
    /\ owner' = [owner EXCEPT ![p] = IF carriers'[p] = {} THEN "nobody" ELSE @]

Next == \E p \in Payloads :
           \/ Create(p)
           \/ Discard(p)
           \/ \E m \in Messages : Attach(p, m) \/ Release(p, m)

Spec == Init /\ [][Next]_vars
=============================================================================
