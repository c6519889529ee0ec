---------------------------- MODULE MCAccessControl ----------------------------
\* Instances of AccessControl: two agencies with a client of the same slug each,
\* a user of the first one, and a slug to spare for renaming.
EXTENDS AccessControl

CONSTANTS alice, acme, zenith, client_a, client_z, store

MCUserAgency == [u \in {alice} |-> acme]
MCClientAgency == [c \in {client_a, client_z} |->
                     IF c = client_a THEN acme ELSE zenith]
MCClientSlug == [c \in {client_a, client_z} |-> store]
================================================================================
