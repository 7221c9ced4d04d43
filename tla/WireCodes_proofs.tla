--------------------------- MODULE WireCodes_proofs ---------------------------
(***************************************************************************)
(* For enums of any size: a received error reaches the variant of its      *)
(* code, and the status declared is the status sent.                       *)
(***************************************************************************)
EXTENDS WireCodes, FiniteSetTheorems, WellFoundedInduction, TLAPS

(* A nonempty set of positions has a first one.                            *)
LEMMA FirstPosition ==
  ASSUME NEW S, S \subseteq Nat, S # {}
  PROVE  \E i \in S : \A j \in S : i <= j
<1>1. PICK i \in S : \A j \in S : ~(<<j, i>> \in OpToRel(<, Nat))
  BY NatLessThanWellFounded, WFMin, Zenon
<1>2. \A j \in S : ~(j < i)
  BY <1>1 DEF OpToRel
<1> QED
  BY <1>2

(* The arms of a match are tried in a definite order: of any variants that *)
(* fit, one comes first.                                                   *)
LEMMA FirstArm ==
  ASSUME DeclaredEnums, Fitting # {}
  PROVE  \E i \in Fitting : \A j \in Fitting : Earlier(i, j)
<1>1. DOMAIN client \subseteq Nat
  BY DEF DeclaredEnums
<1>2. Fitting \subseteq Nat
  BY <1>1 DEF Fitting
<1>3. CASE Fitting \ CatchAlls = {}
  <2>1. PICK i \in Fitting : \A j \in Fitting : i <= j
    BY <1>2, FirstPosition
  <2> QED
    BY <1>3, <2>1 DEF Earlier
<1>4. CASE Fitting \ CatchAlls # {}
  <2>1. PICK i \in Fitting \ CatchAlls : \A j \in Fitting \ CatchAlls : i <= j
    BY <1>2, <1>4, FirstPosition
  <2> QED
    BY <2>1 DEF Earlier
<1> QED
  BY <1>3, <1>4

(* An accepted client enum has a catch-all, so that every code fits.       *)
LEMMA SomethingFits ==
  ASSUME DeclaredEnums, ClientCompiles
  PROVE  Fitting # {}
<1>1. PICK n \in 1 .. MaxClient : client \in [1 .. n -> ClientVariants]
  BY DEF DeclaredEnums
<1>2. n \in Nat
  BY <1>1, Declarations DEF Declarations
<1>3. IsFiniteSet(CatchAlls)
  BY <1>1, <1>2, FS_Interval, FS_Subset DEF CatchAlls
<1>4. CatchAlls # {}
  BY <1>3, FS_EmptySet DEF ClientCompiles
<1> QED
  BY <1>4 DEF CatchAlls, Fitting

LEMMA InitEstablishes == Init => IInv
<1> SUFFICES ASSUME Init PROVE IInv
  OBVIOUS
<1>1. TypeOK
  BY DEF Init, TypeOK, NoErr
<1>2. DeclaredEnums
  BY DEF Init, DeclaredEnums
<1>3. AcceptedOnly /\ FromItsVariant /\ RoutedByCode /\ DeclaredStatusSent
  BY DEF Init, AcceptedOnly, FromItsVariant, RoutedByCode, DeclaredStatusSent
<1> QED
  BY <1>1, <1>2, <1>3 DEF IInv

(* Which declarations a macro accepts depends on nothing that changes.     *)
LEMMA DeclarationsStay ==
  ASSUME UNCHANGED declared
  PROVE  /\ DeclaredEnums => DeclaredEnums'
         /\ ServerCompiles => ServerCompiles'
         /\ ClientCompiles => ClientCompiles'
         /\ \A v : StatusCode(v)' = StatusCode(v)
<1>1. UNCHANGED <<derive, server, marked, client>>
  BY DEF declared
<1>2. CatchAlls' = CatchAlls
  BY <1>1 DEF CatchAlls
<1> QED
  BY <1>1, <1>2 DEF DeclaredEnums, ServerCompiles, ClientCompiles, StatusAttrOk, StatusCode

LEMMA StatusSent ==
  ASSUME IInv, Send
  PROVE  DeclaredStatusSent' /\ wire'.status \in ValidStatusRange
<1> DEFINE d == server[err.variant].status
<1>1. stage = "raised" /\ err' = err /\ server' = server
  BY DEF Send, declared
<1>2. wire'.status = ResolveStatus(Status)
  BY DEF Send
<1>3. err.variant \in Variants /\ server[err.variant] \in ServerVariants
  BY <1>1 DEF IInv, FromItsVariant, DeclaredEnums
<1>4. d = None \/ d \in 100 .. 599
  BY <1>1, <1>3 DEF IInv, AcceptedOnly, ServerCompiles, StatusAttrOk
<1>5. Status = IF err.seeded /\ d # None THEN d ELSE DefaultStatus
  BY <1>1 DEF IInv, FromItsVariant, Status, StatusCode
<1>6. Status \in ValidStatusRange
  BY <1>4, <1>5, Declarations DEF Declarations, ValidStatusRange
<1>7. wire'.status = Status
  BY <1>2, <1>6 DEF ResolveStatus
<1> QED
  BY <1>1, <1>5, <1>6, <1>7 DEF DeclaredStatusSent

LEMMA StepPreserves == IInv /\ [Next]_vars => IInv'
<1> SUFFICES ASSUME IInv, [Next]_vars PROVE IInv'
  OBVIOUS
<1> USE DEF IInv, Declarations
<1>1. CASE Compile
  <2>1. UNCHANGED declared /\ stage' \in {"running", "refused"} /\ UNCHANGED <<err, wire, handled>>
    BY <1>1 DEF Compile
  <2>2. AcceptedOnly'
    BY <1>1, <2>1, DeclarationsStay DEF Compile, AcceptedOnly
  <2> QED
    BY <2>1, <2>2, DeclarationsStay DEF TypeOK, FromItsVariant, RoutedByCode, DeclaredStatusSent
<1>2. ASSUME NEW v \in Variants, From(v) PROVE IInv'
  <2>1. UNCHANGED declared /\ stage = "running" /\ stage' = "raised" /\ UNCHANGED <<wire, handled>>
    BY <1>2 DEF From, Raise
  <2>2. err' = [variant |-> v, status |-> server[v].status, seeded |-> TRUE]
    BY <1>2 DEF From, Raise
  <2>3. server[v] \in ServerVariants /\ server' = server
    BY <2>1 DEF DeclaredEnums, declared
  <2>4. TypeOK'
    BY <2>1, <2>2, <2>3, Declarations DEF Declarations, TypeOK
  <2>5. FromItsVariant'
    BY <2>2, <2>3 DEF FromItsVariant
  <2>6. AcceptedOnly'
    BY <2>1, DeclarationsStay DEF AcceptedOnly
  <2> QED
    BY <2>1, <2>4, <2>5, <2>6, DeclarationsStay DEF RoutedByCode, DeclaredStatusSent
<1>3. ASSUME NEW v \in Variants, ByHand(v) PROVE IInv'
  <2>1. UNCHANGED declared /\ stage = "running" /\ stage' = "raised" /\ UNCHANGED <<wire, handled>>
    BY <1>3 DEF ByHand, Raise
  <2>2. err' = [variant |-> v, status |-> None, seeded |-> FALSE]
    BY <1>3 DEF ByHand, Raise
  <2>3. TypeOK'
    BY <2>1, <2>2 DEF TypeOK
  <2>4. FromItsVariant'
    BY <2>2 DEF FromItsVariant
  <2>5. AcceptedOnly'
    BY <2>1, DeclarationsStay DEF AcceptedOnly
  <2> QED
    BY <2>1, <2>3, <2>4, <2>5, DeclarationsStay DEF RoutedByCode, DeclaredStatusSent
<1>4. CASE FromReport
  <2>1. PICK v \in marked : From(v)
    BY <1>4 DEF FromReport
  <2>2. marked \subseteq Variants
    BY DEF DeclaredEnums
  <2> QED
    BY <1>2, <2>1, <2>2
<1>5. CASE WithCodeStatus
  <2>1. UNCHANGED declared /\ stage = "raised" /\ stage' = "raised" /\ UNCHANGED <<wire, handled>>
    BY <1>5 DEF WithCodeStatus
  <2>2. err' = [err EXCEPT !.status = StatusCode(err.variant), !.seeded = TRUE]
    BY <1>5 DEF WithCodeStatus
  <2>3. err.variant \in Variants /\ server[err.variant] \in ServerVariants
    BY <2>1 DEF FromItsVariant, DeclaredEnums
  <2>4. StatusCode(err.variant) \in Nat \cup {None}
    BY <2>3, Declarations DEF Declarations, StatusCode
  <2>5. TypeOK'
    BY <2>1, <2>2, <2>4 DEF TypeOK
  <2>6. err'.variant = err.variant /\ err'.seeded /\ err'.status = StatusCode(err.variant)
    BY <2>2 DEF TypeOK
  <2>7. FromItsVariant'
    BY <2>1, <2>3, <2>6, DeclarationsStay DEF FromItsVariant
  <2>8. AcceptedOnly'
    BY <2>1, DeclarationsStay DEF AcceptedOnly
  <2> QED
    BY <2>1, <2>5, <2>7, <2>8, DeclarationsStay DEF RoutedByCode, DeclaredStatusSent
<1>6. CASE Send
  <2>1. UNCHANGED declared /\ stage = "raised" /\ stage' = "sent" /\ UNCHANGED <<err, handled>>
    BY <1>6 DEF Send
  <2>2. TypeOK'
    BY <1>6, <2>1, StatusSent DEF TypeOK
  <2>3. FromItsVariant' /\ AcceptedOnly'
    BY <2>1, DeclarationsStay DEF FromItsVariant, AcceptedOnly, declared
  <2> QED
    BY <1>6, <2>1, <2>2, <2>3, StatusSent, DeclarationsStay DEF RoutedByCode
<1>7. CASE Receive
  <2>1. UNCHANGED declared /\ stage = "sent" /\ stage' = "handled" /\ UNCHANGED <<err, wire>>
    BY <1>7 DEF Receive
  <2>2. Fitting # {}
    BY <2>1, SomethingFits DEF AcceptedOnly
  <2>3. handled' = CHOOSE i \in Fitting : \A j \in Fitting : Earlier(i, j)
    BY <1>7, <2>2 DEF Receive
  <2>4. handled' \in Fitting /\ \A j \in Fitting : Earlier(handled', j)
    BY <2>2, <2>3, FirstArm, Zenon
  <2>5. client' = client /\ wire' = wire /\ err' = err /\ server' = server
    BY <2>1 DEF declared
  <2>6. TypeOK'
    BY <2>1, <2>4, <2>5 DEF TypeOK, Fitting
  <2>7. RoutedByCode'
    BY <2>4, <2>5 DEF RoutedByCode, Fitting, Earlier, CatchAlls
  <2>8. FromItsVariant' /\ AcceptedOnly' /\ DeclaredStatusSent'
    BY <2>1, <2>5, DeclarationsStay DEF FromItsVariant, AcceptedOnly, DeclaredStatusSent
  <2> QED
    BY <2>1, <2>6, <2>7, <2>8, DeclarationsStay
<1>8. CASE UNCHANGED vars
  <2>1. UNCHANGED declared /\ UNCHANGED <<stage, err, wire, handled>>
    BY <1>8 DEF vars
  <2>2. client' = client /\ server' = server
    BY <2>1 DEF declared
  <2>3. TypeOK' /\ RoutedByCode' /\ DeclaredStatusSent'
    BY <2>1, <2>2 DEF TypeOK, RoutedByCode, DeclaredStatusSent
  <2>4. FromItsVariant' /\ AcceptedOnly'
    BY <2>1, <2>2, DeclarationsStay DEF FromItsVariant, AcceptedOnly
  <2> QED
    BY <2>1, <2>3, <2>4, DeclarationsStay
<1> QED
  BY <1>1, <1>2, <1>3, <1>4, <1>5, <1>6, <1>7, <1>8 DEF Next, Over

(* IInv is an invariant of every service and client built with the macros. *)
THEOREM MacrosInvariant == Spec => []IInv
  BY InitEstablishes, StepPreserves, PTL DEF Spec

(* The state keeps its shape, whatever the enums declare.                  *)
THEOREM CodesWellFormed == Spec => []TypeOK
<1>1. IInv => TypeOK
  BY DEF IInv
<1> QED
  BY <1>1, MacrosInvariant, PTL

(* An error that crossed the wire reaches the variant of its code, the     *)
(* catch-all only if the client declares none, for enums of any size and   *)
(* the catch-all at any place in them.                                     *)
THEOREM ErrorsReachTheirVariant == Spec => []RoutedByCode
<1>1. IInv => RoutedByCode
  BY DEF IInv
<1> QED
  BY <1>1, MacrosInvariant, PTL

(* The status a variant declares is the one that is sent, whichever of the *)
(* two generated ways set it; the adapters never have to replace it.       *)
THEOREM DeclaredStatusReachesTheWire == Spec => []DeclaredStatusSent
<1>1. IInv => DeclaredStatusSent
  BY DEF IInv
<1> QED
  BY <1>1, MacrosInvariant, PTL
=============================================================================
