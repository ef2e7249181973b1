----------------------------- MODULE MCAzureIoT -----------------------------
(* AzureIoT for TLC. *)
EXTENDS AzureIoT, TLC

\* Hubs are interchangeable, and so are subscribers.
Interchangeable == Permutations(Hubs) \cup Permutations(Subscribers)
=============================================================================
