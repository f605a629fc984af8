---------------------------------- MODULE KeySwitch ----------------------------------
(* What PRAGMA rekey promises: the file has one credential, a rekey changes it *)
(* from one to the other at a single moment or not at all, and the caller is   *)
(* told which.  A crash may leave the caller without an answer.                *)
CONSTANTS Old, New

VARIABLES
    key,     \* the credential that opens the file
    status   \* what the caller of the latest rekey knows

vars == << key, status >>

Init == key = Old /\ status = "idle"

Request == status # "pending" /\ key = Old /\ status' = "pending" /\ UNCHANGED key

\* The last step of a commit: the key changes and the caller learns of it.
Switch == status = "pending" /\ key = Old /\ key' = New /\ status' = "ok"

ReportError == status = "pending" /\ key = Old /\ status' = "error" /\ UNCHANGED key

Interrupt == status # "idle" /\ status' = "idle" /\ UNCHANGED key

Next == Request \/ Switch \/ ReportError \/ Interrupt

Spec == Init /\ [][Next]_vars
=============================================================================
