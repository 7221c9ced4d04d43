------------------------------ MODULE MCExchange ------------------------------
EXTENDS Exchange
CONSTANTS not_found, internal
MCCodes == {not_found, internal}
\* One code's mapping is broken: 999 is no HTTP status.
MCStatusCode == [c \in MCCodes |-> IF c = not_found THEN 404 ELSE 999]
=============================================================================
