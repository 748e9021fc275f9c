-------------------------- MODULE OtaManagerProofs --------------------------
(***************************************************************************)
(* Proofs about the manager of the protocomm variant, for any number of     *)
(* tasks, any builds and any number of added endpoints.                     *)
(***************************************************************************)
EXTENDS OtaManager, FiniteSetTheorems, TLAPS

USE DEF Calls, Steps

(* The number of a version is less than the number of versions. *)
LEMMA NumberType ==
  ASSUME compiled \in SUBSET (0 .. 2), NEW v \in compiled
  PROVE  /\ Number(v) \in 0 .. 2 /\ Number(v) < Cardinality(compiled)
         /\ Cardinality(compiled) \in Nat
<1> DEFINE Less == {w \in compiled : w < v}
<1>1. IsFiniteSet(0 .. 2) /\ Cardinality(0 .. 2) = 3
  <2> DEFINE first == 0
             last == 2
  <2>1. first \in Int /\ last \in Int /\ ~(first > last) /\ last - first + 1 = 3
    OBVIOUS
  <2> HIDE DEF first, last
  <2>2. /\ IsFiniteSet(first .. last)
        /\ Cardinality(first .. last) = IF first > last THEN 0 ELSE last - first + 1
    BY <2>1, FS_Interval
  <2>3. IsFiniteSet(first .. last) /\ Cardinality(first .. last) = 3
    BY <2>1, <2>2
  <2> QED
    BY <2>3 DEF first, last
<1>2. IsFiniteSet(compiled) /\ Cardinality(compiled) <= 3
  <2> DEFINE V == 0 .. 2
  <2>1. IsFiniteSet(V) /\ Cardinality(V) = 3 /\ compiled \in SUBSET V
    BY <1>1
  <2> HIDE DEF V
  <2> QED
    BY <2>1, FS_Subset
<1>3. IsFiniteSet(compiled \ {v}) /\ Cardinality(compiled \ {v}) = Cardinality(compiled) - 1
  BY <1>2, FS_RemoveElement
<1>4. Less \subseteq compiled \ {v}
  OBVIOUS
<1>5. IsFiniteSet(Less) /\ Cardinality(Less) <= Cardinality(compiled) - 1
  BY <1>3, <1>4, FS_Subset
<1>6. Cardinality(Less) \in Nat /\ Cardinality(compiled) \in Nat
  BY <1>2, <1>5, FS_CardinalityType
<1> QED
  BY <1>2, <1>5, <1>6 DEF Number

(* Without a gap a version's number is the version. *)
LEMMA NumberIsVersion ==
  ASSUME compiled \in SUBSET (0 .. 2), NoGap, NEW v \in compiled
  PROVE  Number(v) = v
<1>1. Cardinality(compiled) \in Nat
  BY NumberType
<1>2. v \in Nat /\ compiled = 0 .. (Cardinality(compiled) - 1)
  BY DEF NoGap
<1>3. {w \in compiled : w < v} = 0 .. (v - 1)
  BY <1>1, <1>2
<1>4. Cardinality(0 .. (v - 1)) = v
  BY <1>2, FS_Interval
<1> QED
  BY <1>3, <1>4 DEF Number

(* No two places of the table have one UUID. *)
LEMMA UuidsDiffer ==
  ASSUME NEW i \in Nat \ {0}, NEW j \in Nat \ {0}, Uuid(i) = Uuid(j)
  PROVE  i = j
<1>1. Len(Fixed) = 7
  BY DEF Fixed
<1>2. \A k \in 1 .. 7 : Uuid(k) = Fixed[k]
  BY <1>1 DEF Uuid
<1>3. \A k \in Nat \ {0} : k > 7 => Uuid(k) = 65364 + k - 7
  BY <1>1 DEF Uuid, FirstAdded
<1>4. \A k, l \in 1 .. 7 : Fixed[k] = Fixed[l] => k = l
  BY DEF Fixed
<1>5. \A k \in 1 .. 7 : Fixed[k] \in Nat /\ Fixed[k] < 65365
  BY DEF Fixed
<1>6. CASE i <= 7 /\ j <= 7
  BY <1>2, <1>4, <1>6
<1>7. CASE i > 7 \/ j > 7
  BY <1>2, <1>3, <1>5, <1>7
<1> QED
  BY <1>6, <1>7

-----------------------------------------------------------------------------
(* A step of one task in its calls, that touches nothing but its place *)
Calm(t) ==
  /\ ~Busy(t) /\ \E l \in {"idle"} \cup Calls : Goto(t, l)
  /\ UNCHANGED <<compiled, lock, ctx, state, config, security, service, memory>>

LEMMA CalmSteps ==
  ASSUME NEW t \in Tasks, Enter(t) \/ StartRefused(t) \/ Stop(t) \/ Wait(t)
  PROVE  Calm(t)
BY DEF Enter, StartRefused, Stop, Wait, Calm, Busy, Return, Goto

LEMMA InitInvs ==
  ASSUME Init
  PROVE  TypeOK /\ ManagerInv
<1>1. compiled \in SUBSET (0 .. 2) /\ compiled # {}
  BY ManagerAssumption DEF Init
<1>2. PICK v \in compiled : TRUE
  BY <1>1
<1>3. 0 < Cardinality(compiled)
  BY <1>1, NumberType
<1>4. TypeOK
  BY <1>3 DEF Init, TypeOK
<1>5. \A t \in Tasks : pc[t] = "idle"
  BY DEF Init
<1>6. StartInv /\ ServiceInv /\ SecureInv /\ ServiceIsComplete
  BY <1>5 DEF Init, StartInv, ServiceInv, SecureInv, ServiceIsComplete, Serving, Busy
<1>7. TableInv
  BY DEF Init, TableInv
<1> QED
  BY <1>4, <1>6, <1>7 DEF ManagerInv

(* Types are kept by every step. *)
LEMMA TypeStep ==
  ASSUME TypeOK, [Next]_vars
  PROVE  TypeOK'
<1> USE DEF TypeOK, Goto, Return
<1>1. compiled' = compiled /\ compiled \in SUBSET (0 .. 2)
  BY ManagerAssumption
     DEF Next, InitManager, Enter, InCall, CreateEndpoint, StartRefused, Starting, StartService,
         NewProtocomm, ConfigService, StartBle, SetVersion, SetSecurity, AddHandlers, Stop, Wait,
         Deinit, vars
<1>2. CASE InitManager
  BY <1>1, <1>2 DEF InitManager, service
<1>3. ASSUME NEW t \in Tasks, Enter(t) \/ StartRefused(t) \/ Stop(t) \/ Wait(t)
      PROVE  TypeOK'
  BY <1>3, CalmSteps DEF Calm, service
<1>4. ASSUME NEW t \in Tasks, CreateEndpoint(t)
      PROVE  TypeOK'
  BY <1>4 DEF CreateEndpoint, service
<1>5. ASSUME NEW t \in Tasks, Starting(t)
      PROVE  TypeOK'
  <2>1. security' \in 0 .. 2 /\ security' < Cardinality(compiled)
    BY <1>1, <1>5, NumberType DEF Starting
  <2> QED
    BY <1>1, <1>5, <2>1 DEF Starting, service
<1>6. ASSUME NEW t \in Tasks, NewProtocomm(t) \/ ConfigService(t)
      PROVE  TypeOK'
  BY <1>6 DEF NewProtocomm, ConfigService, DeleteProtocomm, service
<1>7. ASSUME NEW t \in Tasks, StartBle(t) \/ SetVersion(t)
      PROVE  TypeOK'
  BY <1>7 DEF StartBle, SetVersion, DeleteProtocomm, StopBle, service
<1>8. ASSUME NEW t \in Tasks, SetSecurity(t) \/ AddHandlers(t)
      PROVE  TypeOK'
  BY <1>8 DEF SetSecurity, AddHandlers, DeleteProtocomm, StopBle, service
<1>9. ASSUME NEW t \in Tasks, Deinit(t)
      PROVE  TypeOK'
  BY <1>9 DEF Deinit, service
<1>10. CASE UNCHANGED vars
  BY <1>10 DEF vars, service
<1> QED
  BY <1>2, <1>3, <1>4, <1>5, <1>6, <1>7, <1>8, <1>9, <1>10 DEF Next, InCall, StartService

(* Every step of the manager keeps its types. *)
THEOREM TypeCorrect == Spec => []TypeOK
<1>1. Init => TypeOK
  BY InitInvs
<1>2. TypeOK /\ [Next]_vars => TypeOK'
  BY TypeStep
<1> QED
  BY <1>1, <1>2, PTL DEF Spec

-----------------------------------------------------------------------------
(* The inductive invariant, kind of step by kind of step *)

LEMMA CalmKeeps ==
  ASSUME TypeOK, ManagerInv, NEW t \in Tasks, Calm(t)
  PROVE  ManagerInv'
<1>1. UNCHANGED <<compiled, lock, ctx, state, config, security, protocomm, secured, endpoints, served, memory>>
  BY DEF Calm, service
<1>2. \A u \in Tasks : Busy(u)' = Busy(u) /\ (Busy(u)' => pc'[u] = pc[u])
  BY DEF Calm, Busy, Goto, TypeOK
<1>3. \A u \in Tasks : pc'[u] \in Steps => pc'[u] = pc[u]
  BY <1>2 DEF Busy
<1>4. StartInv' /\ ServiceInv' /\ SecureInv' /\ TableInv'
  BY <1>1, <1>2, <1>3 DEF ManagerInv, StartInv, ServiceInv, SecureInv, TableInv, Serving, NoGap
<1>5. Settled' => Settled
  BY <1>2 DEF Settled, Busy
<1>6. ServiceIsComplete'
  BY <1>1, <1>5 DEF ManagerInv, ServiceIsComplete, Serving, NoGap
<1> QED
  BY <1>4, <1>6 DEF ManagerInv

(* Nothing is served, and nobody starts, while the manager is idle. *)
LEMMA Idle ==
  ASSUME TypeOK, ManagerInv, state = "IDLE"
  PROVE  ~Serving /\ protocomm # "live" /\ \A t \in Tasks : ~Busy(t)
BY DEF ManagerInv, StartInv

LEMMA TableKept ==
  ASSUME config \in Seq(Nat), \A i \in DOMAIN config : config[i] = Uuid(i),
         Len(config) >= Len(Fixed)
  PROVE  LET uuid == FirstAdded + Len(config) - Len(Fixed) + 1 IN
           /\ SetConfigEndpoint(config, uuid) \in Seq(Nat)
           /\ \A i \in DOMAIN SetConfigEndpoint(config, uuid) :
                SetConfigEndpoint(config, uuid)[i] = Uuid(i)
<1>1. Len(Fixed) = 7 /\ Len(config) \in Nat /\ DOMAIN config = 1 .. Len(config)
  BY DEF Fixed
<1>2. Uuid(Len(config) + 1) = FirstAdded + Len(config) - Len(Fixed) + 1
  BY <1>1 DEF Uuid, FirstAdded
<1> QED
  BY <1>1, <1>2 DEF SetConfigEndpoint, FirstAdded

LEMMA IdleKeeps ==
  ASSUME TypeOK, ManagerInv, state = "IDLE", state' = "IDLE", TableInv',
         UNCHANGED <<compiled, security, protocomm, secured, endpoints, served>>,
         \A u \in Tasks : ~Busy(u)'
  PROVE  ManagerInv'
<1>1. ~Serving' /\ protocomm' # "live"
  BY Idle DEF Serving
<1>2. StartInv' /\ ServiceInv' /\ SecureInv' /\ ServiceIsComplete'
  BY <1>1 DEF StartInv, ServiceInv, SecureInv, ServiceIsComplete, Busy
<1> QED
  BY <1>2 DEF ManagerInv

LEMMA InitManagerKeeps ==
  ASSUME TypeOK, ManagerInv, InitManager
  PROVE  ManagerInv'
<1>1. state = "IDLE" /\ state' = "IDLE"
  BY DEF InitManager, TypeOK, ManagerInv, StartInv
<1>2. \A u \in Tasks : ~Busy(u)'
  BY DEF InitManager, Busy
<1>3. config' = config /\ ctx' # "live" => TableInv'
  BY DEF TableInv, ManagerInv, Uuid
<1>4. config' = Configured => TableInv'
  <2>1. Fixed \in Seq(Nat) /\ Len(Fixed) = 7 /\ DOMAIN Fixed = 1 .. 7
    BY DEF Fixed
  <2>2. Configured = Fixed
    BY <2>1 DEF Configured, NewConfig
  <2>3. \A i \in 1 .. 7 : Uuid(i) = Fixed[i]
    BY <2>1 DEF Uuid
  <2>4. SUFFICES ASSUME config' = Fixed
                 PROVE  TableInv'
    BY <2>2
  <2>5. config' \in Seq(Nat) /\ Len(config') = 7 /\ DOMAIN config' = 1 .. 7
    BY <2>1, <2>4, Zenon
  <2>6. \A i \in DOMAIN config' : config'[i] = Uuid(i)
    BY <2>3, <2>4, <2>5
  <2> QED
    BY <2>1, <2>5, <2>6 DEF TableInv, Uuid
<1>5. TableInv'
  BY <1>3, <1>4 DEF InitManager
<1> QED
  BY <1>1, <1>2, <1>5, IdleKeeps DEF InitManager, service

LEMMA CreateEndpointKeeps ==
  ASSUME TypeOK, ManagerInv, NEW t \in Tasks, CreateEndpoint(t)
  PROVE  ManagerInv'
<1>1. CASE config' = config
  <2>1. Calm(t)
    BY <1>1 DEF CreateEndpoint, Calm, Busy, Return, Goto
  <2> QED
    BY <2>1, CalmKeeps
<1>2. CASE config' # config
  <2>1. state = "IDLE" /\ state' = "IDLE" /\ ctx = "live"
    BY <1>2 DEF CreateEndpoint
  <2>2. \A u \in Tasks : ~Busy(u)'
    BY <2>1, Idle DEF CreateEndpoint, Return, Goto, Busy, TypeOK
  <2>3. /\ config \in Seq(Nat) /\ Len(config) >= Len(Fixed)
        /\ \A i \in DOMAIN config : config[i] = Uuid(i)
    BY <2>1 DEF ManagerInv, TableInv
  <2>4. /\ config' \in Seq(Nat) /\ \A i \in DOMAIN config' : config'[i] = Uuid(i)
        /\ Len(config') = Len(config) + 1
    <3>1. config' = SetConfigEndpoint(config, FirstAdded + Len(config) - Len(Fixed) + 1)
      BY <1>2 DEF CreateEndpoint
    <3>2. Len(config') = Len(config) + 1
      BY <2>3, <3>1 DEF SetConfigEndpoint
    <3> QED
      BY <2>3, <3>1, <3>2, TableKept, Zenon
  <2>5. Len(Fixed) = 7 /\ Len(config) \in Nat
    BY <2>3 DEF Fixed
  <2>6. TableInv'
    BY <2>3, <2>4, <2>5 DEF TableInv, Uuid
  <2> QED
    BY <2>1, <2>2, <2>6, IdleKeeps DEF CreateEndpoint, service
<1> QED
  BY <1>1, <1>2

LEMMA DeinitKeeps ==
  ASSUME TypeOK, ManagerInv, NEW t \in Tasks, Deinit(t)
  PROVE  ManagerInv'
<1>1. state = "IDLE" /\ state' = "IDLE"
  BY DEF Deinit, TypeOK, ManagerInv, StartInv
<1>2. \A u \in Tasks : ~Busy(u)'
  BY <1>1, Idle DEF Deinit, Return, Goto, Busy, TypeOK
<1>3. TableInv'
  BY DEF Deinit, TableInv
<1> QED
  BY <1>1, <1>2, <1>3, IdleKeeps DEF Deinit, service

LEMMA StartingKeeps ==
  ASSUME TypeOK, ManagerInv, NEW t \in Tasks, Starting(t)
  PROVE  ManagerInv'
<1>1. /\ state = "IDLE" /\ state' = "STARTING" /\ ctx' = "live"
      /\ UNCHANGED <<compiled, config, protocomm, secured, endpoints, served, memory>>
  BY DEF Starting, service
<1>2. ~Serving' /\ protocomm' # "live"
  BY <1>1, Idle DEF Serving
<1>3. \A u \in Tasks : Busy(u)' => u = t /\ pc'[u] = "new"
  BY <1>1, Idle DEF Starting, Return, Goto, Busy, TypeOK
<1>4. ASSUME NoGap, NEW u \in Tasks, Busy(u)'
      PROVE  security' \in compiled
  <2>1. pc'[t] = "new"
    BY <1>3, <1>4
  <2>2. PICK v \in compiled : security' = Number(v)
    BY <2>1 DEF Starting, Return, Goto, TypeOK
  <2>3. compiled \in SUBSET (0 .. 2)
    BY ManagerAssumption DEF TypeOK
  <2> QED
    BY <1>4, <2>2, <2>3, NumberIsVersion
<1>5. StartInv'
  BY <1>1, <1>2, <1>3 DEF StartInv
<1>6. ServiceInv' /\ ServiceIsComplete'
  BY <1>2 DEF ServiceInv, ServiceIsComplete
<1>7. \A u \in Tasks : pc'[u] # "handlers"
  BY <1>3 DEF Busy
<1>8. SecureInv'
  BY <1>1, <1>4, <1>7 DEF SecureInv, NoGap
<1>9. TableInv'
  BY <1>1 DEF TableInv, ManagerInv, Starting, Uuid
<1> QED
  BY <1>5, <1>6, <1>8, <1>9 DEF ManagerInv

(* A step of the one task that starts the service *)
ServiceStep(t) ==
  /\ Busy(t) /\ UNCHANGED <<compiled, lock, ctx, state, config, security, memory>>
  /\ \E l \in {"idle"} \cup (Steps \ {"new"}) : Goto(t, l)

LEMMA StartServiceSteps ==
  ASSUME NEW t \in Tasks, StartService(t)
  PROVE  ServiceStep(t)
BY DEF StartService, NewProtocomm, ConfigService, StartBle, SetVersion, SetSecurity, AddHandlers,
       ServiceStep, Busy, At, Return, Goto

LEMMA ServiceStepKeeps ==
  ASSUME TypeOK, ManagerInv, NEW t \in Tasks, StartService(t)
  PROVE  ManagerInv'
<1>1. ServiceStep(t)
  BY StartServiceSteps
<1>2. state = "STARTING" /\ ctx = "live" /\ UNCHANGED <<compiled, ctx, state, config, security, memory>>
  BY <1>1 DEF ServiceStep, ManagerInv, StartInv
<1>3. \A u \in Tasks : u # t => ~Busy(u) /\ ~Busy(u)'
  BY <1>1 DEF ServiceStep, ManagerInv, StartInv, Busy, Goto, TypeOK
<1>4. pc'[t] # "new" /\ \A u \in Tasks : pc'[u] # "new"
  BY <1>1, <1>3 DEF ServiceStep, Goto, TypeOK, Busy
<1>5. StartInv'
  BY <1>2, <1>3, <1>4 DEF StartInv
<1>6. TableInv'
  BY <1>2 DEF TableInv, ManagerInv
<1>7. NoGap' = NoGap /\ (NoGap => security \in compiled)
  BY <1>1, <1>2 DEF NoGap, ServiceStep, ManagerInv, SecureInv
<1>8. Settled' <=> ~Busy(t)'
  BY <1>3 DEF Settled, Busy
(* It is enough to look at the task itself. *)
<1>9. SUFFICES /\ Serving' => memory /\ served' = config
               /\ pc'[t] \in {"service", "ble"} => ~Serving'
               /\ pc'[t] = "handlers" => secured' = {security}
               /\ NoGap /\ Serving' /\ ~Busy(t)' => secured' = {security} /\ endpoints' = OtaEndpoints
  <2>1. ServiceInv'
    BY <1>2, <1>3, <1>4, <1>9 DEF ServiceInv, Busy
  <2>2. SecureInv'
    BY <1>2, <1>3, <1>7, <1>9 DEF SecureInv, Busy
  <2>3. ServiceIsComplete'
    BY <1>2, <1>7, <1>8, <1>9 DEF ServiceIsComplete
  <2> QED
    BY <1>5, <1>6, <2>1, <2>2, <2>3 DEF ManagerInv
<1> USE DEF TypeOK, ManagerInv, ServiceInv, SecureInv, Serving, Busy, At, Goto, Return
<1>10. CASE NewProtocomm(t)
  BY <1>10 DEF NewProtocomm
<1>11. CASE ConfigService(t)
  BY <1>11 DEF ConfigService, DeleteProtocomm, service
<1>12. CASE StartBle(t)
  BY <1>12 DEF StartBle, DeleteProtocomm
<1>13. CASE SetVersion(t)
  BY <1>13 DEF SetVersion, DeleteProtocomm, StopBle, service
<1>14. CASE SetSecurity(t)
  BY <1>7, <1>14 DEF SetSecurity, DeleteProtocomm, StopBle, service
<1>15. CASE AddHandlers(t)
  BY <1>15 DEF AddHandlers, DeleteProtocomm, StopBle
<1> QED
  BY <1>10, <1>11, <1>12, <1>13, <1>14, <1>15 DEF StartService

(* What the manager has made is at every moment what the place of its one start
   says, whichever step fails.                                                 *)
THEOREM ManagerIsSound == Spec => []ManagerInv
<1>1. Init => ManagerInv
  BY InitInvs
<1>2. ASSUME TypeOK, ManagerInv, [Next]_vars
      PROVE  ManagerInv'
  <2>1. CASE InitManager
    BY <1>2, <2>1, InitManagerKeeps
  <2>2. ASSUME NEW t \in Tasks, Enter(t) \/ StartRefused(t) \/ Stop(t) \/ Wait(t)
        PROVE  ManagerInv'
    BY <1>2, <2>2, CalmSteps, CalmKeeps
  <2>3. ASSUME NEW t \in Tasks, CreateEndpoint(t)
        PROVE  ManagerInv'
    BY <1>2, <2>3, CreateEndpointKeeps
  <2>4. ASSUME NEW t \in Tasks, Starting(t)
        PROVE  ManagerInv'
    BY <1>2, <2>4, StartingKeeps
  <2>5. ASSUME NEW t \in Tasks, StartService(t)
        PROVE  ManagerInv'
    BY <1>2, <2>5, ServiceStepKeeps
  <2>6. ASSUME NEW t \in Tasks, Deinit(t)
        PROVE  ManagerInv'
    BY <1>2, <2>6, DeinitKeeps
  <2>7. CASE UNCHANGED vars
    <3>1. UNCHANGED <<compiled, lock, ctx, state, config, security, protocomm, secured, endpoints, served, memory, pc>>
      BY <2>7 DEF vars, service
    <3> QED
      BY <1>2, <3>1 DEF ManagerInv, StartInv, ServiceInv, SecureInv, TableInv, ServiceIsComplete,
         Serving, Settled, NoGap, Busy
  <2> QED
    BY <1>2, <2>1, <2>2, <2>3, <2>4, <2>5, <2>6, <2>7 DEF Next, InCall
<1> QED
  BY <1>1, <1>2, TypeCorrect, PTL DEF Spec

(* One task at most is in the start, and makes its instance over none. *)
THEOREM OneStart == Spec => []OneService
<1>1. ManagerInv => OneService
  <2>1. SUFFICES ASSUME ManagerInv
                 PROVE  OneService
    OBVIOUS
  <2> DEFINE B == {t \in Tasks : pc[t] \in Steps}
  <2>2. \A t, u \in B : t = u
    BY <2>1 DEF ManagerInv, StartInv, Busy
  <2>3. B = {} \/ \E t \in B : B = {t}
    BY <2>2
  <2>4. Cardinality(B) \in {0, 1}
    BY <2>3, FS_EmptySet, FS_Singleton
  <2> QED
    BY <2>1, <2>4 DEF OneService, ManagerInv, StartInv
<1> QED
  BY <1>1, ManagerIsSound, PTL

(* The service works with the table of the configuration, with no UUID twice, and
   neither the context nor the memory of BLE goes away under it.                  *)
THEOREM TableIsServed == Spec => []ServedAsConfigured
<1>1. TypeOK /\ ManagerInv => ServedAsConfigured
  <2>1. SUFFICES ASSUME TypeOK, ManagerInv, Serving
                 PROVE  /\ served = config /\ \A i, j \in DOMAIN served : served[i] = served[j] => i = j
                        /\ ctx = "live" /\ memory
    BY DEF ServedAsConfigured
  <2>2. served = config /\ config \in Seq(Nat) /\ \A i \in DOMAIN config : config[i] = Uuid(i)
    BY <2>1 DEF ManagerInv, ServiceInv, TableInv
  <2>3. DOMAIN served \subseteq Nat \ {0}
    BY <2>2
  <2>4. \A i, j \in DOMAIN served : served[i] = served[j] => i = j
    BY <2>2, <2>3, UuidsDiffer
  <2>5. ctx = "live" /\ memory
    BY <2>1 DEF TypeOK, ManagerInv, StartInv, ServiceInv
  <2> QED
    BY <2>2, <2>4, <2>5
<1> QED
  BY <1>1, TypeCorrect, ManagerIsSound, PTL

(* A service that is up when its start has returned is complete. *)
THEOREM ServiceComplete == Spec => []ServiceIsComplete
<1>1. ManagerInv => ServiceIsComplete
  BY DEF ManagerInv
<1> QED
  BY <1>1, ManagerIsSound, PTL
=============================================================================
