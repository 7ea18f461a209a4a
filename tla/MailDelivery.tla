----------------------------- MODULE MailDelivery -----------------------------
(***************************************************************************)
(* What the queue of emails promises, without worker, progress, records    *)
(* and dead letters: the recipients of a message are fixed when it enters  *)
(* the queue; only an open message goes out, to them and nobody else;      *)
(* having gone out it is shut, and nothing but a new fault opens it again; *)
(* a settled message never goes out.                                       *)
(***************************************************************************)
EXTENDS Naturals

CONSTANTS Messages, Addresses, FaultKinds

VARIABLES
    stage,        \* message -> how far its delivery has come
    recipients,   \* message -> the addresses it is for
    copies,       \* message -> times it has gone out
    mailed,       \* addresses that something has gone out to
    faults        \* kind -> faults so far

mailVars == <<stage, recipients, copies, mailed, faults>>

Goes(m, to) == stage' = [stage EXCEPT ![m] = to]

MailInit ==
    /\ stage = [m \in Messages |-> "none"]
    /\ recipients = [m \in Messages |-> {}]
    /\ copies = [m \in Messages |-> 0]
    /\ mailed = {}
    /\ faults = [k \in FaultKinds |-> 0]

Request(m, to) ==
    /\ stage[m] = "none"
    /\ to # {}
    /\ Goes(m, "open")
    /\ recipients' = [recipients EXCEPT ![m] = to]
    /\ UNCHANGED <<copies, mailed, faults>>

GoesOut(m) ==
    /\ stage[m] = "open"
    /\ Goes(m, "shut")
    /\ copies' = [copies EXCEPT ![m] = @ + 1]
    /\ mailed' = mailed \cup recipients[m]
    /\ UNCHANGED <<recipients, faults>>

(* A worker that is not ready to send passes a message over.               *)
PassedOver(m) ==
    /\ stage[m] = "open"
    /\ Goes(m, "shut")
    /\ UNCHANGED <<recipients, copies, mailed, faults>>

Settle(m) ==
    /\ stage[m] \in {"open", "shut"}
    /\ Goes(m, "settled")
    /\ UNCHANGED <<recipients, copies, mailed, faults>>

(* A fault opens or settles one message at most.                           *)
Trouble(kind) ==
    /\ faults' = [faults EXCEPT ![kind] = @ + 1]
    /\ \/ UNCHANGED stage
       \/ \E m \in Messages : /\ stage[m] \in {"open", "shut"}
                              /\ Goes(m, "open") \/ Goes(m, "settled")
    /\ UNCHANGED <<recipients, copies, mailed>>

MailNext ==
    \/ \E m \in Messages :
          \/ \E to \in SUBSET Addresses : Request(m, to)
          \/ GoesOut(m) \/ PassedOver(m) \/ Settle(m)
    \/ \E kind \in FaultKinds : Trouble(kind)

MailSpec == MailInit /\ [][MailNext]_mailVars

=============================================================================
