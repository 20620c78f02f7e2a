------------------------------ MODULE LeaseMutex ------------------------------
(* What LeaseManager promises its callers (docstrings of leases.py:56 and      *)
(* leases.py:96): an exclusive owner per resource, and a fencing token that    *)
(* grows with every grant, so that storage can tell a late owner from the      *)
(* present one.  Time, callbacks and responses do not exist at this level.     *)
EXTENDS Naturals

CONSTANTS Resources, Holders, Free, StartToken

VARIABLES owner,   \* owner[r]: who holds r, or Free
          fence    \* the last fencing token handed out

abstractVars == <<owner, fence>>

AbstractInit ==
  /\ owner = [r \in Resources |-> Free]
  /\ fence = StartToken

\* A free resource gets an owner, together with a token nobody ever had.
Grant(r, h) ==
  /\ owner[r] = Free
  /\ fence' = fence + 1
  /\ owner' = [owner EXCEPT ![r] = [holder |-> h, token |-> fence + 1]]

\* Any number of owners lose their resource at once.
End(R) ==
  /\ \A r \in R : owner[r] # Free
  /\ owner' = [r \in Resources |-> IF r \in R THEN Free ELSE owner[r]]
  /\ UNCHANGED fence

AbstractNext ==
  \/ \E r \in Resources, h \in Holders : Grant(r, h)
  \/ \E R \in SUBSET Resources : End(R)

AbstractSpec == AbstractInit /\ [][AbstractNext]_abstractVars
===============================================================================
