---- MODULE MCAuditOutbox ----
(* Two events, the older of which cannot be stored, and two server processes. *)
EXTENDS AuditOutbox

TwoEvents == 1..2
OldestIsBad == {1}
====
