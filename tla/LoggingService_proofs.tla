------------------------ MODULE LoggingService_proofs ------------------------
EXTENDS LoggingService, TLAPS

LEMMA InitIInv == Init => IInv
<1> USE DistinctKinds
<1> QED
  BY DEF Init, IInv, TypeOK, OwnedOnce, DrivenOnce, BackedByPermit, SpentOnce,
         NoStrandedPermit, NeverCalledUnready, Reserved, Stages, Handles

\* What the actions of a connection preserve.
LEMMA ConnectPreserves ==
  ASSUME IInv, NEW h \in Handles, Connect(h) PROVE IInv'
<1> USE DistinctKinds DEF IInv
<1>1. PICK i \in Instances : Fresh(i) /\ service' = [service EXCEPT ![h] = i]
  BY DEF Connect
<1>2. TypeOK'
  BY <1>1 DEF Connect, TypeOK
<1>3. OwnedOnce'
  BY <1>1 DEF Connect, TypeOK, OwnedOnce, Fresh, Owned
<1>4. DrivenOnce'
  BY DEF Connect, DrivenOnce
<1>5. BackedByPermit'
  BY <1>1 DEF Connect, TypeOK, BackedByPermit, Reserved
<1>6. SpentOnce' /\ NeverCalledUnready'
  BY DEF Connect, SpentOnce, NeverCalledUnready
<1>7. NoStrandedPermit'
  BY <1>1 DEF Connect, TypeOK, NoStrandedPermit
<1> QED BY <1>2, <1>3, <1>4, <1>5, <1>6, <1>7

LEMMA DisconnectPreserves ==
  ASSUME IInv, NEW h \in Handles, Disconnect(h) PROVE IInv'
<1> USE DistinctKinds DEF IInv
<1>1. TypeOK'
  BY DEF Disconnect, Discard, TypeOK, Release, Stages
<1>2. OwnedOnce'
  BY DEF Disconnect, Discard, TypeOK, OwnedOnce
<1>3. DrivenOnce'
  BY DEF Disconnect, Discard, TypeOK, DrivenOnce
<1>4. BackedByPermit'
  BY DEF Disconnect, Discard, TypeOK, BackedByPermit, OwnedOnce, DrivenOnce, Reserved, Release
<1>5. SpentOnce'
  BY DEF Disconnect, Discard, TypeOK, SpentOnce, Release
<1>6. NoStrandedPermit'
  BY DEF Disconnect, Discard, TypeOK, NoStrandedPermit, DrivenOnce, OwnedOnce, Release
<1>7. NeverCalledUnready'
  BY DEF Disconnect, Discard, TypeOK, NeverCalledUnready
<1> QED BY <1>1, <1>2, <1>3, <1>4, <1>5, <1>6, <1>7

\* A failed poll drops the connection's middleware as closing it does.
LEMMA FailureDisconnects ==
  ASSUME TypeOK, NEW h \in Handles, PollReadyFails(h) PROVE Disconnect(h)
BY DEF PollReadyFails, Disconnect, TypeOK

LEMMA ArrivePreserves ==
  ASSUME IInv, NEW h \in Handles, NEW r \in Requests, Arrive(h, r) PROVE IInv'
<1> USE DistinctKinds DEF IInv
<1>1. TypeOK'
  BY DEF Arrive, TypeOK, Stages
<1>2. OwnedOnce' /\ SpentOnce'
  BY DEF Arrive, OwnedOnce, SpentOnce
<1>3. DrivenOnce'
  BY DEF Arrive, TypeOK, DrivenOnce
<1>4. BackedByPermit'
  BY DEF Arrive, TypeOK, BackedByPermit, Reserved
<1>5. NoStrandedPermit' /\ NeverCalledUnready'
  BY DEF Arrive, TypeOK, NoStrandedPermit, NeverCalledUnready
<1> QED BY <1>1, <1>2, <1>3, <1>4, <1>5

LEMMA PollReadyPreserves ==
  ASSUME IInv, NEW h \in Handles, PollReady(h) PROVE IInv'
<1> USE DistinctKinds DEF IInv
<1>1. CASE Reserved(service[h]) /\ UNCHANGED holder
  <2>1. TypeOK' /\ OwnedOnce' /\ DrivenOnce' /\ SpentOnce' /\ NeverCalledUnready'
    BY <1>1 DEF PollReady, TypeOK, OwnedOnce, DrivenOnce, SpentOnce, NeverCalledUnready
  <2>2. BackedByPermit'
    BY <1>1 DEF PollReady, TypeOK, BackedByPermit, Reserved
  <2>3. NoStrandedPermit'
    BY <1>1 DEF PollReady, TypeOK, NoStrandedPermit
  <2> QED BY <2>1, <2>2, <2>3
<1>2. ASSUME ~Reserved(service[h]), NEW p \in Permits, holder[p] = None,
             holder' = [holder EXCEPT ![p] = service[h]]
      PROVE  IInv'
  <2>1. service[h] \in Instances
    BY DEF PollReady, TypeOK
  <2>2. TypeOK' /\ OwnedOnce' /\ DrivenOnce' /\ NeverCalledUnready'
    BY <1>2, <2>1 DEF PollReady, TypeOK, OwnedOnce, DrivenOnce, NeverCalledUnready
  <2>3. BackedByPermit'
    BY <1>2, <2>1 DEF PollReady, TypeOK, BackedByPermit, Reserved
  <2>4. SpentOnce'
    BY <1>2, <2>1 DEF TypeOK, SpentOnce, Reserved
  <2>5. NoStrandedPermit'
    BY <1>2, <2>1 DEF PollReady, TypeOK, NoStrandedPermit
  <2> QED BY <2>2, <2>3, <2>4, <2>5
<1> QED BY <1>1, <1>2 DEF PollReady, InnerReady

\* What the calls and the futures preserve.
LEMMA CallLoggingPreserves ==
  ASSUME IInv, NEW h \in LoggingHandles, CallLogging(h) PROVE IInv'
<1> USE DistinctKinds DEF IInv
<1> h \in Handles /\ job[h] \in Requests /\ service[h] \in Instances /\ Reserved(service[h])
  BY DEF CallLogging, TypeOK, BackedByPermit, Handles
<1>1. PICK i \in Instances : Fresh(i) /\ service' = [service EXCEPT ![h] = i]
  BY DEF CallLogging
<1>2. TypeOK'
  BY <1>1 DEF CallLogging, TypeOK, Stages
<1>3. OwnedOnce'
  BY <1>1 DEF CallLogging, TypeOK, OwnedOnce, Fresh, Owned
<1>4. DrivenOnce'
  BY DEF CallLogging, TypeOK, DrivenOnce
<1>5. BackedByPermit'
  BY <1>1 DEF CallLogging, TypeOK, BackedByPermit, OwnedOnce, DrivenOnce, Reserved
<1>6. SpentOnce' /\ NeverCalledUnready'
  BY DEF CallLogging, TypeOK, SpentOnce, NeverCalledUnready
<1>7. NoStrandedPermit'
  BY <1>1 DEF CallLogging, TypeOK, NoStrandedPermit, OwnedOnce, DrivenOnce
<1> QED BY <1>2, <1>3, <1>4, <1>5, <1>6, <1>7

LEMMA CallTracePreserves ==
  ASSUME IInv, NEW h \in TraceHandles, CallTrace(h) PROVE IInv'
<1> USE DistinctKinds DEF IInv
<1> h \in Handles /\ job[h] \in Requests /\ service[h] \in Instances /\ Reserved(service[h])
  BY DEF CallTrace, TypeOK, BackedByPermit, Handles
<1>1. /\ future' = [future EXCEPT ![job[h]] = "running"]
      /\ holder' = [p \in Permits |-> IF holder[p] = service[h] THEN job[h] ELSE holder[p]]
  BY DEF CallTrace, InnerCall
<1>2. TypeOK'
  BY <1>1 DEF CallTrace, TypeOK, Stages
<1>3. OwnedOnce'
  BY DEF CallTrace, OwnedOnce
<1>4. DrivenOnce'
  BY <1>1 DEF CallTrace, TypeOK, DrivenOnce
<1>5. BackedByPermit'
  BY <1>1 DEF CallTrace, TypeOK, BackedByPermit, OwnedOnce, DrivenOnce, Reserved
<1>6. SpentOnce'
  BY <1>1 DEF TypeOK, SpentOnce, BackedByPermit, DrivenOnce, Reserved
<1>7. NoStrandedPermit' /\ NeverCalledUnready'
  BY <1>1 DEF CallTrace, TypeOK, NoStrandedPermit, NeverCalledUnready, OwnedOnce, DrivenOnce
<1> QED BY <1>2, <1>3, <1>4, <1>5, <1>6, <1>7

LEMMA StartPreserves ==
  ASSUME IInv, NEW r \in Requests, Start(r) PROVE IInv'
<1> USE DistinctKinds DEF IInv
<1> captured[r] \in Instances /\ Reserved(captured[r]) /\ ~Reserved(r)
  BY DEF Start, TypeOK, BackedByPermit
<1>1. /\ future' = [future EXCEPT ![r] = "running"]
      /\ holder' = [p \in Permits |-> IF holder[p] = captured[r] THEN r ELSE holder[p]]
  BY DEF Start, InnerCall
<1>2. TypeOK'
  BY <1>1 DEF Start, TypeOK, Stages
<1>3. OwnedOnce'
  BY DEF Start, OwnedOnce
<1>4. DrivenOnce'
  BY <1>1 DEF Start, TypeOK, DrivenOnce
<1>5. BackedByPermit'
  BY <1>1 DEF Start, TypeOK, BackedByPermit, OwnedOnce, DrivenOnce, Reserved
<1>6. SpentOnce'
  BY <1>1 DEF TypeOK, SpentOnce, Reserved
<1>7. NoStrandedPermit' /\ NeverCalledUnready'
  BY <1>1 DEF Start, TypeOK, NoStrandedPermit, NeverCalledUnready, OwnedOnce
<1> QED BY <1>2, <1>3, <1>4, <1>5, <1>6, <1>7

LEMMA EndPreserves ==
  ASSUME IInv, NEW r \in Requests, Finish(r) \/ Cancel(r) PROVE IInv'
<1> USE DistinctKinds DEF IInv
<1>1. /\ future[r] \in {"created", "running"}
      /\ future' = [future EXCEPT ![r] = "free"]
      /\ captured' = [captured EXCEPT ![r] = None]
      /\ holder' = Release({r, captured[r]} \ {None})
      /\ UNCHANGED <<service, job, ready>>
  BY DEF Finish, Cancel
<1>2. TypeOK'
  BY <1>1 DEF TypeOK, Release, Stages
<1>3. OwnedOnce'
  BY <1>1 DEF TypeOK, OwnedOnce
<1>4. DrivenOnce'
  BY <1>1 DEF TypeOK, DrivenOnce
<1>5. BackedByPermit'
  BY <1>1 DEF TypeOK, BackedByPermit, OwnedOnce, DrivenOnce, Reserved, Release
<1>6. SpentOnce'
  BY <1>1 DEF TypeOK, SpentOnce, Release
<1>7. NoStrandedPermit' /\ NeverCalledUnready'
  BY <1>1 DEF TypeOK, NoStrandedPermit, NeverCalledUnready, OwnedOnce, Release
<1> QED BY <1>2, <1>3, <1>4, <1>5, <1>6, <1>7

LEMMA StutterPreserves == ASSUME IInv, UNCHANGED vars PROVE IInv'
  BY DEF vars, IInv, TypeOK, OwnedOnce, DrivenOnce, BackedByPermit, SpentOnce,
         NoStrandedPermit, NeverCalledUnready, Reserved

(* IInv, with everything the runs check as an invariant of the middlewares, *)
(* holds for any number of connections, requests and permits.              *)
THEOREM Readiness == Spec => []IInv
<1>1. IInv /\ [Next]_vars => IInv'
  BY ConnectPreserves, DisconnectPreserves, ArrivePreserves, PollReadyPreserves, FailureDisconnects,
     CallLoggingPreserves, CallTracePreserves, StartPreserves, EndPreserves,
     StutterPreserves DEF Next, IInv
<1> QED BY <1>1, InitIInv, PTL DEF Spec

(* No schedule makes LoggingMiddleware or TraceService call an instance    *)
(* without a reservation.                                                  *)
THEOREM CalledOnlyWhenReady == Spec => []NeverCalledUnready
<1>1. IInv => NeverCalledUnready
  BY DEF IInv
<1> QED BY <1>1, Readiness, PTL

(* No schedule leaves a permit reserved by an instance nobody is about to  *)
(* call.                                                                   *)
THEOREM NothingStranded == Spec => []NoStrandedPermit
<1>1. IInv => NoStrandedPermit
  BY DEF IInv
<1> QED BY <1>1, Readiness, PTL

(* Whatever connections and futures do, the state keeps its shape.         *)
THEOREM ServiceWellFormed == Spec => []TypeOK
<1>1. IInv => TypeOK
  BY DEF IInv
<1> QED BY <1>1, Readiness, PTL

-----------------------------------------------------------------------------
\* The refinement.  In a reachable state the view of a permit is determined
\* by any owner of the instance that holds it.
GrantFacts ==
  \A p \in Permits :
    /\ holder[p] \in Requests \cup {None} => grantView[p] = holder[p]
    /\ \A h \in Handles :
         holder[p] \in Instances /\ service[h] = holder[p] => grantView[p] = job[h]
    /\ \A r \in Requests :
         holder[p] \in Instances /\ captured[r] = holder[p] => grantView[p] = r

LEMMA GrantView == IInv => GrantFacts
<1> SUFFICES ASSUME IInv, NEW p \in Permits
             PROVE  /\ holder[p] \in Requests \cup {None} => grantView[p] = holder[p]
                    /\ \A h \in Handles :
                         holder[p] \in Instances /\ service[h] = holder[p] => grantView[p] = job[h]
                    /\ \A r \in Requests :
                         holder[p] \in Instances /\ captured[r] = holder[p] => grantView[p] = r
  BY DEF GrantFacts
<1> USE DistinctKinds
<1>1. grantView[p] = Beneficiary(holder[p])
  BY DEF grantView
<1>2. holder[p] \in Requests \cup {None} => grantView[p] = holder[p]
  BY <1>1 DEF Beneficiary
<1>3. ASSUME NEW h \in Handles, holder[p] \in Instances, service[h] = holder[p]
      PROVE  grantView[p] = job[h]
  <2>1. ~\E r \in Requests : captured[r] = holder[p]
    BY <1>3 DEF IInv, OwnedOnce
  <2>2. (CHOOSE k \in Handles : service[k] = holder[p]) = h
    BY <1>3 DEF IInv, OwnedOnce
  <2> QED BY <1>1, <1>3, <2>1, <2>2 DEF Beneficiary
<1>4. ASSUME NEW r \in Requests, holder[p] \in Instances, captured[r] = holder[p]
      PROVE  grantView[p] = r
  <2>1. (CHOOSE s \in Requests : captured[s] = holder[p]) = r
    BY <1>4 DEF IInv, OwnedOnce
  <2> QED BY <1>1, <1>4, <2>1 DEF Beneficiary
<1> QED BY <1>2, <1>3, <1>4

LEMMA AbstractInit == Init => Abstract!Init
  BY DistinctKinds DEF Init, Abstract!Init, stageView, grantView, Beneficiary, Handles

\* Every reachable pair of states, with what is known of both.
Reachable == IInv /\ IInv' /\ GrantFacts /\ GrantFacts'

Stutter == stageView' = stageView /\ grantView' = grantView

\* A permit held by an instance has an owner that the view agrees with.
LEMMA HeldByInstance ==
  ASSUME IInv, NEW p \in Permits, holder[p] \in Instances
  PROVE  \/ \E h \in Handles : service[h] = holder[p] /\ ready[h]
         \/ \E r \in Requests : captured[r] = holder[p] /\ future[r] = "created"
  BY DEF IInv, NoStrandedPermit

LEMMA ConnectRefines ==
  ASSUME Reachable, NEW h \in Handles, Connect(h) PROVE Stutter
<1> USE DistinctKinds DEF Reachable
<1>1. stageView' = stageView
  BY DEF Connect, stageView
<1>2. ASSUME NEW p \in Permits PROVE grantView'[p] = grantView[p]
  <2>1. CASE holder[p] \in Requests \cup {None}
    BY <2>1 DEF Connect, GrantFacts
  <2>2. CASE holder[p] \in Instances
    <3>1. CASE \E r \in Requests : captured[r] = holder[p]
      BY <2>2, <3>1 DEF Connect, GrantFacts
    <3>2. CASE \E k \in Handles : service[k] = holder[p] /\ ready[k]
      BY <2>2, <3>2 DEF Connect, GrantFacts, IInv, TypeOK
    <3> QED BY <2>2, <3>1, <3>2, HeldByInstance
  <2> QED BY <2>1, <2>2 DEF IInv, TypeOK
<1> QED BY <1>1, <1>2 DEF grantView, Stutter

LEMMA DisconnectRefines ==
  ASSUME Reachable, NEW h \in Handles, Disconnect(h)
  PROVE  Stutter \/ \E r \in Requests : Abstract!Leave(r)
<1> USE DistinctKinds DEF Reachable
<1>1. ASSUME NEW p \in Permits, holder[p] \in Instances, holder[p] # service[h]
      PROVE  /\ grantView'[p] = grantView[p]
             /\ grantView[p] # None /\ grantView[p] # job[h]
  <2>1. PICK s \in Requests \cup Handles :
          \/ s \in Requests /\ captured[s] = holder[p] /\ future[s] = "created"
          \/ s \in Handles /\ service[s] = holder[p] /\ ready[s]
    BY <1>1, HeldByInstance
  <2>2. CASE s \in Requests /\ captured[s] = holder[p] /\ future[s] = "created"
    BY <1>1, <2>2 DEF Disconnect, Discard, GrantFacts, Release, IInv, TypeOK, DrivenOnce
  <2>3. CASE s \in Handles /\ service[s] = holder[p] /\ ready[s]
    BY <1>1, <2>3 DEF Disconnect, Discard, GrantFacts, Release, IInv, TypeOK, DrivenOnce
  <2> QED BY <2>1, <2>2, <2>3
<1>2. ASSUME NEW p \in Permits, holder[p] = service[h]
      PROVE  ready[h] /\ job[h] # None /\ grantView[p] = job[h] /\ grantView'[p] = None
  <2>1. holder[p] \in Instances
    BY <1>2 DEF Disconnect, Discard, IInv, TypeOK
  <2>2. ready[h] /\ job[h] # None
    BY <1>2, <2>1, HeldByInstance DEF IInv, TypeOK, OwnedOnce
  <2> QED BY <1>2, <2>1, <2>2 DEF Disconnect, Discard, GrantFacts, Release, IInv, TypeOK
<1>3. ASSUME NEW p \in Permits, holder[p] \in Requests \cup {None}
      PROVE  grantView'[p] = grantView[p] /\ grantView[p] = holder[p]
  BY <1>3 DEF Disconnect, Discard, GrantFacts, Release, IInv, TypeOK
<1>4. CASE job[h] = None
  <2>1. \A p \in Permits : grantView'[p] = grantView[p]
    BY <1>1, <1>2, <1>3, <1>4 DEF IInv, TypeOK
  <2>2. stageView' = stageView
    BY <1>4 DEF Disconnect, Discard, stageView, IInv, TypeOK
  <2> QED BY <2>1, <2>2 DEF grantView, Stutter
<1>5. CASE job[h] # None
  <2> job[h] \in Requests /\ future[job[h]] = "queued"
    BY <1>5 DEF IInv, TypeOK, DrivenOnce
  <2>1. stageView[job[h]] # "free"
    BY DEF stageView
  <2>2. stageView' = [stageView EXCEPT ![job[h]] = "free"]
    BY <1>5 DEF Disconnect, Discard, stageView, IInv, TypeOK, DrivenOnce
  <2>3. \A p \in Permits : holder[p] # job[h]
    BY DEF IInv, BackedByPermit, Reserved
  <2>4. \A p \in Permits : grantView'[p] = IF grantView[p] = job[h] THEN None ELSE grantView[p]
    BY <1>1, <1>2, <1>3, <2>3 DEF IInv, TypeOK
  <2> QED BY <2>1, <2>2, <2>4 DEF grantView, Abstract!Leave
<1> QED BY <1>4, <1>5

LEMMA ArriveRefines ==
  ASSUME Reachable, NEW h \in Handles, NEW r \in Requests, Arrive(h, r) PROVE Abstract!Submit(r)
<1> USE DistinctKinds DEF Reachable
<1>1. stageView[r] = "free" /\ stageView' = [stageView EXCEPT ![r] = "queued"]
  <2>1. \A k \in Handles : job[k] # r /\ ~ready[h]
    BY DEF Arrive, IInv, TypeOK, DrivenOnce
  <2>2. stageView'[r] = "queued"
    BY <2>1 DEF Arrive, stageView, IInv, TypeOK
  <2>3. \A s \in Requests : s # r => stageView'[s] = stageView[s]
    BY <2>1 DEF Arrive, stageView, IInv, TypeOK
  <2>4. stageView[r] = "free"
    BY DEF Arrive, stageView
  <2> QED BY <2>2, <2>3, <2>4 DEF stageView
<1>2. ASSUME NEW p \in Permits PROVE grantView'[p] = grantView[p]
  <2>1. CASE holder[p] \in Requests \cup {None}
    BY <2>1 DEF Arrive, GrantFacts
  <2>2. CASE holder[p] \in Instances
    <3>1. CASE \E s \in Requests : captured[s] = holder[p]
      BY <2>2, <3>1 DEF Arrive, GrantFacts
    <3>2. CASE \E k \in Handles : service[k] = holder[p] /\ ready[k]
      BY <2>2, <3>2 DEF Arrive, GrantFacts, IInv, TypeOK
    <3> QED BY <2>2, <3>1, <3>2, HeldByInstance
  <2> QED BY <2>1, <2>2 DEF IInv, TypeOK
<1> QED BY <1>1, <1>2 DEF grantView, Abstract!Submit

LEMMA PollReadyRefines ==
  ASSUME Reachable, NEW h \in Handles, PollReady(h)
  PROVE  Stutter \/ \E r \in Requests, p \in Permits : Abstract!Admit(r, p)
<1> USE DistinctKinds DEF Reachable
<1> job[h] \in Requests /\ service[h] \in Instances /\ future[job[h]] = "queued"
  BY DEF PollReady, IInv, TypeOK, DrivenOnce
<1>1. CASE Reserved(service[h])
  <2>1. ready[h] /\ UNCHANGED vars
    BY <1>1, HeldByInstance DEF PollReady, InnerReady, Reserved, IInv, TypeOK, OwnedOnce, vars
  <2> QED
    BY <2>1 DEF vars, Stutter, stageView, grantView, Beneficiary
<1>2. ASSUME ~Reserved(service[h]), NEW p \in Permits, holder[p] = None,
             holder' = [holder EXCEPT ![p] = service[h]]
      PROVE  Abstract!Admit(job[h], p)
  <2>1. ~ready[h]
    BY <1>2 DEF IInv, BackedByPermit
  <2>2. stageView[job[h]] = "queued"
    BY <2>1 DEF stageView, IInv, DrivenOnce
  <2>3. stageView' = [stageView EXCEPT ![job[h]] = "admitted"]
    <3>1. stageView'[job[h]] = "admitted"
      BY DEF PollReady, stageView, IInv, TypeOK
    <3>2. \A s \in Requests : s # job[h] => stageView'[s] = stageView[s]
      BY DEF PollReady, stageView, IInv, TypeOK, DrivenOnce
    <3>3. stageView = [s \in Requests |-> stageView[s]] /\ stageView' = [s \in Requests |-> stageView'[s]]
      BY DEF stageView
    <3> QED BY <3>1, <3>2, <3>3
  <2>4. grantView[p] = None /\ grantView'[p] = job[h]
    BY <1>2 DEF PollReady, GrantFacts, IInv, TypeOK
  <2>5. ASSUME NEW q \in Permits, q # p PROVE grantView'[q] = grantView[q]
    <3>1. holder'[q] = holder[q] /\ service' = service /\ job' = job /\ captured' = captured
      BY <1>2, <2>5 DEF PollReady, IInv, TypeOK
    <3> QED BY <3>1 DEF grantView, Beneficiary
  <2> QED BY <2>2, <2>3, <2>4, <2>5 DEF grantView, Abstract!Admit
<1> QED BY <1>1, <1>2 DEF PollReady, InnerReady

\* The three steps that only move a reservation along, towards the request
\* it is for.
LEMMA CallLoggingRefines ==
  ASSUME Reachable, NEW h \in LoggingHandles, CallLogging(h) PROVE Stutter
<1> USE DistinctKinds DEF Reachable
<1> h \in Handles /\ job[h] \in Requests /\ future[job[h]] = "queued"
  BY DEF CallLogging, IInv, TypeOK, DrivenOnce, Handles
<1>1. ASSUME NEW s \in Requests PROVE stageView'[s] = stageView[s]
  <2>1. CASE s = job[h]
    BY <2>1 DEF CallLogging, stageView, IInv, TypeOK
  <2>2. CASE s # job[h]
    BY <2>2 DEF CallLogging, stageView, IInv, TypeOK
  <2> QED BY <2>1, <2>2
<1>2. ASSUME NEW p \in Permits PROVE grantView'[p] = grantView[p]
  <2>1. CASE holder[p] \in Requests \cup {None}
    BY <2>1 DEF CallLogging, GrantFacts
  <2>2. CASE holder[p] \in Instances
    <3>1. CASE \E r \in Requests : captured[r] = holder[p] /\ future[r] = "created"
      BY <2>2, <3>1 DEF CallLogging, GrantFacts, IInv, TypeOK
    <3>2. CASE \E k \in Handles : service[k] = holder[p] /\ ready[k]
      BY <2>2, <3>2 DEF CallLogging, GrantFacts, IInv, TypeOK
    <3> QED BY <2>2, <3>1, <3>2, HeldByInstance
  <2> QED BY <2>1, <2>2 DEF IInv, TypeOK
<1> QED BY <1>1, <1>2 DEF grantView, stageView, Stutter

LEMMA CallTraceRefines ==
  ASSUME Reachable, NEW h \in TraceHandles, CallTrace(h) PROVE Stutter
<1> USE DistinctKinds DEF Reachable
<1> h \in Handles /\ job[h] \in Requests /\ future[job[h]] = "queued"
  BY DEF CallTrace, IInv, TypeOK, DrivenOnce, Handles
<1>0. /\ future' = [future EXCEPT ![job[h]] = "running"]
      /\ holder' = [p \in Permits |-> IF holder[p] = service[h] THEN job[h] ELSE holder[p]]
  BY DEF CallTrace, InnerCall, IInv, BackedByPermit
<1>1. ASSUME NEW s \in Requests PROVE stageView'[s] = stageView[s]
  <2>1. CASE s = job[h]
    BY <1>0, <2>1 DEF CallTrace, stageView, IInv, TypeOK
  <2>2. CASE s # job[h]
    BY <1>0, <2>2 DEF CallTrace, stageView, IInv, TypeOK
  <2> QED BY <2>1, <2>2
<1>2. ASSUME NEW p \in Permits PROVE grantView'[p] = grantView[p]
  <2>1. CASE holder[p] \in Requests \cup {None}
    BY <1>0, <2>1 DEF CallTrace, GrantFacts, IInv, TypeOK
  <2>2. CASE holder[p] \in Instances /\ holder[p] = service[h]
    BY <1>0, <2>2 DEF CallTrace, GrantFacts, IInv, TypeOK
  <2>3. CASE holder[p] \in Instances /\ holder[p] # service[h]
    <3>1. CASE \E r \in Requests : captured[r] = holder[p]
      BY <1>0, <2>3, <3>1 DEF CallTrace, GrantFacts, IInv, TypeOK
    <3>2. CASE \E k \in Handles : service[k] = holder[p] /\ ready[k]
      BY <1>0, <2>3, <3>2 DEF CallTrace, GrantFacts, IInv, TypeOK
    <3> QED BY <2>3, <3>1, <3>2, HeldByInstance
  <2> QED BY <2>1, <2>2, <2>3 DEF IInv, TypeOK
<1> QED BY <1>1, <1>2 DEF grantView, stageView, Stutter

LEMMA StartRefines ==
  ASSUME Reachable, NEW r \in Requests, Start(r) PROVE Stutter
<1> USE DistinctKinds DEF Reachable
<1>0. /\ future' = [future EXCEPT ![r] = "running"]
      /\ holder' = [p \in Permits |-> IF holder[p] = captured[r] THEN r ELSE holder[p]]
      /\ captured[r] \in Instances
  BY DEF Start, InnerCall, IInv, BackedByPermit, TypeOK
<1>1. ASSUME NEW s \in Requests PROVE stageView'[s] = stageView[s]
  BY <1>0 DEF Start, stageView, IInv, TypeOK
<1>2. ASSUME NEW p \in Permits PROVE grantView'[p] = grantView[p]
  <2>1. CASE holder[p] \in Requests \cup {None}
    BY <1>0, <2>1 DEF Start, GrantFacts, IInv, TypeOK
  <2>2. CASE holder[p] \in Instances /\ holder[p] = captured[r]
    BY <1>0, <2>2 DEF Start, GrantFacts, IInv, TypeOK
  <2>3. CASE holder[p] \in Instances /\ holder[p] # captured[r]
    <3>1. CASE \E s \in Requests : captured[s] = holder[p]
      BY <1>0, <2>3, <3>1 DEF Start, GrantFacts, IInv, TypeOK
    <3>2. CASE \E k \in Handles : service[k] = holder[p] /\ ready[k]
      BY <1>0, <2>3, <3>2 DEF Start, GrantFacts, IInv, TypeOK
    <3> QED BY <2>3, <3>1, <3>2, HeldByInstance
  <2> QED BY <2>1, <2>2, <2>3 DEF IInv, TypeOK
<1> QED BY <1>1, <1>2 DEF grantView, stageView, Stutter

LEMMA EndRefines ==
  ASSUME Reachable, NEW r \in Requests, Finish(r) \/ Cancel(r) PROVE Abstract!Leave(r)
<1> USE DistinctKinds DEF Reachable
<1>0. /\ future[r] \in {"created", "running"}
      /\ future' = [future EXCEPT ![r] = "free"]
      /\ captured' = [captured EXCEPT ![r] = None]
      /\ holder' = Release({r, captured[r]} \ {None})
      /\ UNCHANGED <<service, job, ready>>
  BY DEF Finish, Cancel
<1>1. stageView[r] # "free" /\ stageView' = [stageView EXCEPT ![r] = "free"]
  <2>1. stageView[r] = "admitted" /\ stageView'[r] = "free"
    BY <1>0 DEF stageView, IInv, TypeOK
  <2>2. \A s \in Requests : s # r => stageView'[s] = stageView[s]
    BY <1>0 DEF stageView, IInv, TypeOK
  <2> QED BY <2>1, <2>2 DEF stageView
<1>2. ASSUME NEW p \in Permits
      PROVE  grantView'[p] = IF grantView[p] = r THEN None ELSE grantView[p]
  <2>1. CASE holder[p] \in Requests \cup {None}
    BY <1>0, <2>1 DEF GrantFacts, Release, IInv, TypeOK
  <2>2. CASE holder[p] \in Instances /\ holder[p] = captured[r]
    BY <1>0, <2>2 DEF GrantFacts, Release, IInv, TypeOK
  <2>3. CASE holder[p] \in Instances /\ holder[p] # captured[r]
    <3>1. CASE \E s \in Requests : captured[s] = holder[p]
      BY <1>0, <2>3, <3>1 DEF GrantFacts, Release, IInv, TypeOK
    <3>2. CASE \E k \in Handles : service[k] = holder[p] /\ ready[k]
      BY <1>0, <2>3, <3>2 DEF GrantFacts, Release, IInv, TypeOK, DrivenOnce
    <3> QED BY <2>3, <3>1, <3>2, HeldByInstance
  <2> QED BY <2>1, <2>2, <2>3 DEF IInv, TypeOK
<1> QED BY <1>1, <1>2 DEF grantView, Abstract!Leave

LEMMA AbstractStep == Reachable /\ [Next]_vars => [Abstract!Next]_(Abstract!vars)
<1> SUFFICES ASSUME Reachable, [Next]_vars PROVE [Abstract!Next]_(Abstract!vars)
  OBVIOUS
<1>1. Stutter => [Abstract!Next]_(Abstract!vars)
  BY DEF Stutter, Abstract!vars
<1>2. ASSUME UNCHANGED vars PROVE Stutter
  BY <1>2 DEF vars, Stutter, stageView, grantView, Beneficiary
<1>3. ASSUME Next PROVE [Abstract!Next]_(Abstract!vars)
  BY <1>1, <1>3, ConnectRefines, DisconnectRefines, ArriveRefines, PollReadyRefines, FailureDisconnects,
     CallLoggingRefines, CallTraceRefines, StartRefines, EndRefines
     DEF Next, Abstract!Next, Reachable, IInv
<1> QED BY <1>1, <1>2, <1>3

(* Whatever the connections do, and in whatever order their futures are    *)
(* polled, answered or dropped, the middlewares admit requests as          *)
(* Admission does: one permit, nobody else's, for each request served.     *)
THEOREM MiddlewaresImplementAdmission == Spec => ImplementsAdmission
<1>1. IInv => GrantFacts
  BY GrantView
<1>2. Reachable /\ [Next]_vars => [Abstract!Next]_(Abstract!vars)
  BY AbstractStep
<1> QED
  BY <1>1, <1>2, AbstractInit, Readiness, PTL
     DEF Spec, Reachable, ImplementsAdmission, Abstract!Spec
-----------------------------------------------------------------------------
\* Who a permit is spent on, in terms of what the middlewares keep.
SpentOn(p, r) ==
  \/ holder[p] = r /\ future[r] = "running"
  \/ holder[p] = captured[r] /\ future[r] = "created"
  \/ \E h \in Handles : /\ holder[p] = service[h] /\ ready[h]
                        /\ job[h] = r /\ future[r] = "queued"

LEMMA GrantedIsSpent ==
  ASSUME IInv, NEW p \in Permits, NEW r \in Requests
  PROVE  grantView[p] = r <=> SpentOn(p, r)
<1> USE DistinctKinds
<1>0. GrantFacts
  BY GrantView
<1>1. holder[p] \in Instances \cup Requests \cup {None}
  BY DEF IInv, TypeOK
<1>2. ASSUME SpentOn(p, r) PROVE grantView[p] = r
  <2>1. CASE holder[p] = r /\ future[r] = "running"
    BY <1>0, <2>1 DEF GrantFacts
  <2>2. CASE holder[p] = captured[r] /\ future[r] = "created"
    <3>1. captured[r] \in Instances
      BY <2>2 DEF IInv, TypeOK, BackedByPermit
    <3> QED BY <1>0, <2>2, <3>1 DEF GrantFacts
  <2>3. ASSUME NEW h \in Handles, holder[p] = service[h], ready[h], job[h] = r
        PROVE  grantView[p] = r
    <3>1. service[h] \in Instances
      BY <2>3 DEF IInv, TypeOK
    <3> QED BY <1>0, <2>3, <3>1 DEF GrantFacts
  <2> QED BY <1>2, <2>1, <2>2, <2>3 DEF SpentOn
<1>3. ASSUME grantView[p] = r PROVE SpentOn(p, r)
  <2>1. CASE holder[p] \in Requests \cup {None}
    <3>1. holder[p] = r
      BY <1>0, <1>3, <2>1 DEF GrantFacts
    <3>2. future[r] = "running"
      BY <3>1 DEF IInv, BackedByPermit, Reserved
    <3> QED BY <3>1, <3>2 DEF SpentOn
  <2>2. ASSUME holder[p] \in Instances, NEW h \in Handles, service[h] = holder[p], ready[h]
        PROVE  SpentOn(p, r)
    <3>1. job[h] = r
      BY <1>0, <1>3, <2>2 DEF GrantFacts
    <3>2. future[r] = "queued"
      BY <3>1 DEF IInv, DrivenOnce
    <3> QED BY <2>2, <3>1, <3>2 DEF SpentOn
  <2>3. ASSUME holder[p] \in Instances,
               NEW s \in Requests, captured[s] = holder[p], future[s] = "created"
        PROVE  SpentOn(p, r)
    <3>1. s = r
      BY <1>0, <1>3, <2>3 DEF GrantFacts
    <3> QED BY <2>3, <3>1 DEF SpentOn
  <2> QED BY <1>1, <2>1, <2>2, <2>3, HeldByInstance
<1> QED BY <1>2, <1>3

LEMMA AdmittedIsSpent ==
  ASSUME IInv, NEW r \in Requests
  PROVE  stageView[r] = "admitted" <=> \E p \in Permits : SpentOn(p, r)
<1>1. stageView[r] = "admitted" <=>
        \/ future[r] \in {"created", "running"}
        \/ future[r] = "queued" /\ \E h \in Handles : job[h] = r /\ ready[h]
  BY DEF stageView, IInv, TypeOK, Stages, NeverCalledUnready
<1>2. ASSUME NEW p \in Permits, SpentOn(p, r) PROVE stageView[r] = "admitted"
  BY <1>1, <1>2 DEF SpentOn
<1>3. CASE future[r] = "running"
  BY <1>1, <1>3 DEF SpentOn, IInv, BackedByPermit, Reserved
<1>4. CASE future[r] = "created"
  BY <1>1, <1>4 DEF SpentOn, IInv, BackedByPermit, Reserved
<1>5. ASSUME future[r] = "queued", NEW h \in Handles, job[h] = r, ready[h]
      PROVE  \E p \in Permits : SpentOn(p, r)
  BY <1>5 DEF SpentOn, IInv, BackedByPermit, Reserved
<1> QED BY <1>1, <1>2, <1>3, <1>4, <1>5

LEMMA SpentApart ==
  ASSUME IInv, NEW p \in Permits, NEW q \in Permits, NEW r \in Requests,
         SpentOn(p, r), SpentOn(q, r)
  PROVE  p = q
<1> USE DistinctKinds
<1>1. holder[p] = holder[q]
  BY DEF SpentOn, IInv, DrivenOnce
<1>2. holder[p] # None
  BY DEF SpentOn, IInv, TypeOK, BackedByPermit
<1> QED BY <1>1, <1>2 DEF IInv, SpentOnce

(* A request is admitted exactly while one permit, and only one, is spent  *)
(* on it, wherever the middlewares happen to keep that permit: on the      *)
(* instance of a connection, in a future that was never polled, or in the  *)
(* inner service's own future.                                             *)
THEOREM OnePermitEach == Spec => []OnePermitPerRequest
<1>1. IInv => OnePermitPerRequest
  <2> SUFFICES ASSUME IInv PROVE OnePermitPerRequest
    OBVIOUS
  <2>1. \A r \in Requests : stageView[r] = "admitted" <=> \E p \in Permits : grantView[p] = r
    BY GrantedIsSpent, AdmittedIsSpent
  <2>2. ASSUME NEW p \in Permits, NEW q \in Permits,
               grantView[p] = grantView[q], grantView[p] # None
        PROVE  p = q
    <3>1. grantView[p] \in Requests
      <4>1. holder[p] \in Instances \cup Requests \cup {None}
        BY DEF IInv, TypeOK
      <4>2. GrantFacts
        BY GrantView
      <4> QED BY <2>2, <4>1, <4>2, HeldByInstance DEF GrantFacts, IInv, TypeOK
    <3>2. SpentOn(p, grantView[p]) /\ SpentOn(q, grantView[p])
      BY <2>2, <3>1, GrantedIsSpent
    <3> QED BY <3>1, <3>2, SpentApart
  <2> QED BY <2>1, <2>2 DEF OnePermitPerRequest, Abstract!AdmittedIffGranted
<1> QED BY <1>1, Readiness, PTL
=============================================================================
