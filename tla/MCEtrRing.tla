------------------------------ MODULE MCEtrRing ------------------------------
(* EtrRing instantiated for TLC, in both modes of a ring.                    *)
EXTENDS EtrRing

\* The ring only copies messages and tests them for equality, so what holds of
\* one of them holds of all.
AnyMsg == CHOOSE m \in Msgs : TRUE

\* Every request the ring accepted is called back, however the senders keep the
\* ring busy and whatever quota the poller uses: neither mode misses a response
\* that arrives as the handler leaves adf_handle_response.
EveryRequestCompletes == RequestCompletes(AnyMsg)
=============================================================================
