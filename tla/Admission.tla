------------------------------ MODULE Admission ------------------------------
(***************************************************************************)
(* What tower's readiness contract promises of any middleware stacked over *)
(* a capacity-limited service: a request is admitted only in exchange for  *)
(* a permit that nobody else holds, a permit is spent on one request at a  *)
(* time, and a request gives back everything it was granted when it        *)
(* leaves.  LoggingService implements this specification.                  *)
(***************************************************************************)
CONSTANTS Requests, \* requests a server may be handling
          Permits,  \* units of capacity of the inner service
          None      \* no request

VARIABLES stage,    \* how far each request has come
          grant     \* the request each permit is spent on

vars == <<stage, grant>>

TypeOK ==
  /\ stage \in [Requests -> {"free", "queued", "admitted"}]
  /\ grant \in [Permits -> Requests \cup {None}]

Init ==
  /\ stage = [r \in Requests |-> "free"]
  /\ grant = [p \in Permits |-> None]

Submit(r) ==
  /\ stage[r] = "free"
  /\ stage' = [stage EXCEPT ![r] = "queued"]
  /\ UNCHANGED grant

Admit(r, p) ==
  /\ stage[r] = "queued"
  /\ grant[p] = None
  /\ stage' = [stage EXCEPT ![r] = "admitted"]
  /\ grant' = [grant EXCEPT ![p] = r]

\* The answer was produced, or the caller gave up.
Leave(r) ==
  /\ stage[r] # "free"
  /\ stage' = [stage EXCEPT ![r] = "free"]
  /\ grant' = [p \in Permits |-> IF grant[p] = r THEN None ELSE grant[p]]

Next == \E r \in Requests :
          \/ Submit(r)
          \/ \E p \in Permits : Admit(r, p)
          \/ Leave(r)

Spec == Init /\ [][Next]_vars

-----------------------------------------------------------------------------
(* A request is being served exactly while one permit, and no more than    *)
(* one, is spent on it: the load on the inner service never exceeds its    *)
(* capacity, and no capacity is lost to requests that are not served.      *)
AdmittedIffGranted ==
  /\ \A r \in Requests : stage[r] = "admitted" <=> \E p \in Permits : grant[p] = r
  /\ \A p, q \in Permits : grant[p] = grant[q] /\ grant[p] # None => p = q
=============================================================================
