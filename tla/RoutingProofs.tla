--------------------------- MODULE RoutingProofs ----------------------------
(***************************************************************************)
(* Proofs that a call reaches the handle of its own method through any     *)
(* number of code generations, and that smfc's exit with 0 can be trusted, *)
(* for all schemas, names, checksums without collisions and --language     *)
(* lists.                                                                  *)
(***************************************************************************)
EXTENDS Routing, SumTheorems, TLAPS

Service == [name : Name, methods : Seq(Sig), included : BOOLEAN]
Class == {ServiceClass(sv) : sv \in Service}
ClientMethod == UNION {ClientClass(sv) : sv \in Service}
Generated == [services : Seq(Class), clients : SUBSET ClientMethod]

USE SMTT(5), ZenonT(10), SMTT(20), ZenonT(30)

-----------------------------------------------------------------------------
(* What the loops keep.                                                    *)

\* k follows the loop of Keep up to position n.
Keeps(k, s, K, n) ==
  k = [i \in 0 .. n |-> IF i = 0 THEN <<>>
                        ELSE IF i \in K THEN Append(k[i - 1], s[i]) ELSE k[i - 1]]

\* The loop can be followed to every position.
LEMMA KeepsExists ==
  ASSUME NEW s, NEW K, NEW n \in Nat
  PROVE  \E k : Keeps(k, s, K, n)
<1> DEFINE B == {m \in Nat : ~\E k : Keeps(k, s, K, m)}
<1>1. \E k : Keeps(k, s, K, 0)
  <2>1. Keeps([i \in 0 .. 0 |-> <<>>], s, K, 0)
    BY DEF Keeps
  <2>. QED BY <2>1
<1>2. ASSUME NEW m \in Nat, NEW k, Keeps(k, s, K, m) PROVE \E l : Keeps(l, s, K, m + 1)
  <2> DEFINE last == IF m + 1 \in K THEN Append(k[m], s[m + 1]) ELSE k[m]
             l == [i \in 0 .. m + 1 |-> IF i = m + 1 THEN last ELSE k[i]]
  <2>1. \A i \in 0 .. m : l[i] = k[i]
    OBVIOUS
  <2>2. ASSUME NEW i \in 0 .. m + 1
        PROVE  l[i] = IF i = 0 THEN <<>> ELSE IF i \in K THEN Append(l[i - 1], s[i]) ELSE l[i - 1]
    <3>1. CASE i = m + 1
      BY <2>1, <3>1
    <3>2. CASE i \in 0 .. m
      <4>1. l[i] = k[i] /\ (i # 0 => l[i - 1] = k[i - 1])
        BY <3>2, <2>1
      <4>2. k[i] = IF i = 0 THEN <<>> ELSE IF i \in K THEN Append(k[i - 1], s[i]) ELSE k[i - 1]
        BY <1>2, <3>2 DEF Keeps
      <4>. HIDE DEF l
      <4>. QED BY <4>1, <4>2
    <3>. QED BY <3>1, <3>2
  <2>3. l = [i \in 0 .. m + 1 |-> l[i]]
    OBVIOUS
  <2>. HIDE DEF l
  <2>4. Keeps(l, s, K, m + 1)
    BY <2>2, <2>3 DEF Keeps
  <2>. QED BY <2>4
<1>3. ASSUME n \in B PROVE FALSE
  <2>1. B \in SUBSET Nat /\ B # {}
    BY <1>3
  <2>2. PICK m \in B : \A i \in B : m <= i
    <3>. HIDE DEF B
    <3>. QED BY <2>1, SmallestNumber
  <2>3. m \in Nat /\ m # 0
    BY <1>1
  <2>4. m - 1 \in Nat /\ m - 1 \notin B /\ (m - 1) + 1 = m
    BY <2>1, <2>2, <2>3
  <2>5. \E k : Keeps(k, s, K, m - 1)
    BY <2>4
  <2>6. \E l : Keeps(l, s, K, (m - 1) + 1)
    BY <1>2, <2>4, <2>5
  <2>. QED BY <2>4, <2>6
<1>. QED BY <1>3

\* A loop keeps elements of the positions it was asked for, and nothing else.
LEMMA KeepType ==
  ASSUME NEW A, NEW C, NEW s \in Seq(A), NEW K, \A i \in DOMAIN s : i \in K => s[i] \in C
  PROVE  Keep(s, K) \in Seq(C)
<1> DEFINE n == Len(s)
<1>1. n \in Nat /\ DOMAIN s = 1 .. n
  OBVIOUS
<1>2. \E k : Keeps(k, s, K, n) /\ Keep(s, K) = k[n]
  <2>1. \E k : Keeps(k, s, K, n)
    BY <1>1, KeepsExists
  <2>. QED BY <2>1, Zenon DEF Keep, Keeps
<1>3. PICK k : Keeps(k, s, K, n) /\ Keep(s, K) = k[n]
  BY <1>2
<1> DEFINE B == {m \in 0 .. n : k[m] \notin Seq(C)}
<1>. HIDE DEF n
<1>4. ASSUME n \in B PROVE FALSE
  <2>1. B \in SUBSET Nat /\ B # {}
    BY <1>1, <1>4
  <2>2. PICK m \in B : \A i \in B : m <= i
    <3>. HIDE DEF B
    <3>. QED BY <2>1, SmallestNumber
  <2>3. m \in 0 .. n /\ k[m] \notin Seq(C)
    OBVIOUS
  <2>4. k[m] = IF m = 0 THEN <<>> ELSE IF m \in K THEN Append(k[m - 1], s[m]) ELSE k[m - 1]
    BY <1>3, <2>3 DEF Keeps
  <2>5. m # 0
    BY <2>3, <2>4
  <2>6. m \in DOMAIN s /\ m - 1 \in 0 .. n /\ m - 1 \notin B
    BY <1>1, <2>2, <2>3, <2>5
  <2>7. k[m - 1] \in Seq(C)
    BY <2>6
  <2>. QED BY <2>3, <2>4, <2>5, <2>6, <2>7
<1>. QED BY <1>1, <1>3, <1>4

-----------------------------------------------------------------------------
(* The generated code.                                                     *)

\* The classes of a service are classes.
LEMMA CppType == ASSUME NEW svs \in Seq(Service) PROVE CppCode(svs) \in Generated
<1> DEFINE sc == [k \in DOMAIN svs |-> ServiceClass(svs[k])]
           cl == UNION {ClientClass(svs[k]) : k \in DOMAIN svs}
<1>1. \A k \in DOMAIN svs : svs[k] \in Service
  OBVIOUS
<1>2. \A k \in DOMAIN svs : ServiceClass(svs[k]) \in Class
  BY <1>1, Zenon DEF Class
<1>3. sc \in Seq(Class)
  <2>1. Len(svs) \in Nat /\ sc \in [1 .. Len(svs) -> Class]
    BY <1>2
  <2>. HIDE DEF sc
  <2>. QED BY <2>1
<1>4. cl \in SUBSET ClientMethod
  BY <1>1, Zenon DEF ClientMethod
<1>. HIDE DEF sc, cl
<1>5. [services |-> sc, clients |-> cl] \in Generated
  BY <1>3, <1>4 DEF Generated
<1>. QED BY <1>5, Zenon DEF CppCode, sc, cl

\* So are the clients of python.
LEMMA PythonType == ASSUME NEW svs \in Seq(Service) PROVE PythonCode(svs) \in Generated
<1> DEFINE cl == UNION {ClientClass(svs[k]) : k \in DOMAIN svs}
<1>1. \A k \in DOMAIN svs : svs[k] \in Service
  OBVIOUS
<1>2. cl \in SUBSET ClientMethod
  BY <1>1, Zenon DEF ClientMethod
<1>. HIDE DEF cl
<1>3. [services |-> <<>>, clients |-> cl] \in Generated
  BY <1>2 DEF Generated
<1>. QED BY <1>3, Zenon DEF PythonCode, cl

\* Every language gets code made of the services of the file itself.
LEMMA CodeType ==
  ASSUME NEW sch \in Seq(Service), NEW l \in Language
  PROVE  Code(l, sch) \in Generated
<1>1. Services(sch) \in Seq(Service)
  <2>1. \A k \in DOMAIN sch : sch[k] \in Service
    OBVIOUS
  <2>. QED BY <2>1, KeepType, Zenon DEF Services
<1>2. CppCode(Services(sch)) \in Generated /\ PythonCode(Services(sch)) \in Generated
  BY <1>1, CppType, PythonType
<1>. QED BY <1>2 DEF Code, GoCode, Language

\* split_langs leaves known languages only.
LEMMA SplitLangsType == ASSUME NEW ws \in Words PROVE SplitLangs(ws) \in Seq(Language)
<1>1. ws \in Seq(STRING)
  BY SmfcAssumption
<1>. QED BY <1>1, KeepType, Zenon DEF SplitLangs

\* What is left to generate is the head and the rest.
LEMMA LeftTail ==
  ASSUME NEW s \in Seq(Language), s # <<>>
  PROVE  /\ Head(s) \in Language /\ Tail(s) \in Seq(Language)
         /\ \A l \in ToSet(s) : l = Head(s) \/ l \in ToSet(Tail(s))
<1>1. Head(s) \in Language /\ Tail(s) \in Seq(Language)
  OBVIOUS
<1>2. ASSUME NEW i \in DOMAIN s PROVE s[i] = Head(s) \/ s[i] \in ToSet(Tail(s))
  <2>1. CASE i = 1
    BY <2>1
  <2>2. CASE i # 1
    <3>1. i - 1 \in DOMAIN Tail(s) /\ Tail(s)[i - 1] = s[i]
      BY <2>2
    <3>. QED BY <3>1 DEF ToSet
  <2>. QED BY <2>1, <2>2
<1>. QED BY <1>1, <1>2 DEF ToSet

-----------------------------------------------------------------------------
(* smfc.                                                                   *)

SchemaType == schema \in Seq(Service)
FilesType == files \in [Language -> Generated \cup {NoCode}]

(* A language of this run is still to come or its file is up to date; a run  *)
(* that is on its way has no status yet.                                   *)
RunProgress ==
  /\ phase \in {"idle", "parse", "gen"}
  /\ left \in Seq(Language) /\ asked \in SUBSET Language
  /\ phase = "parse" => asked \subseteq ToSet(left)
  /\ phase = "gen" => \A l \in asked : l \in ToSet(left) \/ files[l] = Code(l, schema)
  /\ phase # "idle" => status # "ok"
  /\ SuccessMeansGenerated

SmfcInv == SchemaType /\ FilesType /\ RunProgress

\* Nothing was generated at first.
LEMMA InitSmfc == Init => SmfcInv
BY DEF Init, SmfcInv, SchemaType, FilesType, RunProgress, SuccessMeansGenerated

\* An edit of the schema takes the status of the last run away.
LEMMA EditStep ==
  ASSUME SmfcInv, Edited, schema' \in Seq(Service)
  PROVE  SmfcInv'
<1>1. phase = "idle" /\ status' = "none" /\ UNCHANGED <<phase, left, asked, files>>
  BY DEF Edited
<1>. QED BY <1>1 DEF SmfcInv, SchemaType, FilesType, RunProgress, SuccessMeansGenerated

\* A run that ends without success says so.
LEMMA FailStep ==
  ASSUME SmfcInv, End("failed"), UNCHANGED schema, asked' \in SUBSET Language, FilesType'
  PROVE  SmfcInv'
<1>1. phase' = "idle" /\ status' = "failed" /\ left' = <<>>
  BY DEF End
<1>. QED BY <1>1 DEF SmfcInv, SchemaType, RunProgress, SuccessMeansGenerated

\* Every step of smfc keeps the invariant.
LEMMA SmfcStep == ASSUME SmfcInv, Smfc PROVE SmfcInv'
<1>0. SchemaType /\ FilesType /\ RunProgress
  BY DEF SmfcInv
<1>1. ASSUME NEW n \in Name, NEW m \in Sig, NEW b \in BOOLEAN, AddService(n, m, b)
      PROVE  SmfcInv'
  <2>1. [name |-> n, methods |-> <<m>>, included |-> b] \in Service
    BY DEF Service
  <2>2. schema' = Append(schema, [name |-> n, methods |-> <<m>>, included |-> b]) /\ Edited
    BY <1>1 DEF AddService
  <2>3. schema' \in Seq(Service)
    BY <1>0, <2>1, <2>2 DEF SchemaType
  <2>. QED BY <2>2, <2>3, EditStep
<1>2. ASSUME NEW k \in DOMAIN schema, NEW i \in 1 .. MaxEdits, NEW m \in Sig, AddMethod(k, i, m)
      PROVE  SmfcInv'
  <2>1. /\ i \in 1 .. Len(schema[k].methods) + 1 /\ Edited
        /\ schema' = [schema EXCEPT ![k].methods = InsertAt(@, i, m)]
    BY <1>2 DEF AddMethod
  <2>2. schema[k] \in Service /\ schema[k].methods \in Seq(Sig)
    <3>1. schema[k] \in Service
      BY <1>0 DEF SchemaType
    <3>. QED BY <3>1 DEF Service
  <2>3. InsertAt(schema[k].methods, i, m) \in Seq(Sig)
    <3> DEFINE ms == schema[k].methods
    <3>1. ms \in Seq(Sig) /\ i \in 1 .. Len(ms) + 1
      BY <2>1, <2>2
    <3>. HIDE DEF ms
    <3>2. SubSeq(ms, 1, i - 1) \in Seq(Sig) /\ SubSeq(ms, i, Len(ms)) \in Seq(Sig)
      BY <3>1
    <3>3. (SubSeq(ms, 1, i - 1) \o <<m>>) \o SubSeq(ms, i, Len(ms)) \in Seq(Sig)
      BY <3>2
    <3>. QED BY <3>3 DEF InsertAt, ms
  <2>4. [schema[k] EXCEPT !.methods = InsertAt(schema[k].methods, i, m)] \in Service
    BY <2>2, <2>3 DEF Service
  <2>5. schema' = [schema EXCEPT ![k] = [schema[k] EXCEPT !.methods = InsertAt(schema[k].methods, i, m)]]
    BY <2>1, Zenon
  <2>6. schema' \in Seq(Service)
    BY <1>0, <2>4, <2>5 DEF SchemaType
  <2>. QED BY <2>1, <2>6, EditStep
<1>3. ASSUME NEW ws \in Words, NEW b \in BOOLEAN, Main(ws, b) PROVE SmfcInv'
  <2> DEFINE ls == SplitLangs(ws)
  <2>1. asked' = ToSet(ls) /\ UNCHANGED <<schema, files>>
        /\ IF ~b \/ ls = <<>> THEN End("failed")
           ELSE phase' = "parse" /\ left' = ls /\ status' = "none"
    BY <1>3 DEF Main
  <2>2. ls \in Seq(Language) /\ ToSet(ls) \in SUBSET Language
    <3>1. ls \in Seq(Language)
      BY SplitLangsType
    <3>. HIDE DEF ls
    <3>. QED BY <3>1 DEF ToSet
  <2>. HIDE DEF ls
  <2>3. FilesType' /\ SchemaType' /\ asked' \in SUBSET Language
    BY <1>0, <2>1, <2>2 DEF FilesType, SchemaType
  <2>4. CASE End("failed")
    BY <2>1, <2>3, <2>4, FailStep
  <2>5. CASE phase' = "parse" /\ left' = ls /\ status' = "none"
    <3>1. RunProgress'
      BY <2>1, <2>2, <2>5 DEF RunProgress, SuccessMeansGenerated
    <3>. QED BY <2>3, <3>1 DEF SmfcInv
  <2>. QED BY <2>1, <2>4, <2>5
<1>4. ASSUME NEW b \in BOOLEAN, Parse(b) PROVE SmfcInv'
  <2>1. phase = "parse" /\ UNCHANGED <<schema, asked, files>>
        /\ IF b THEN phase' = "gen" /\ UNCHANGED <<left, status>> ELSE End("failed")
    BY <1>4 DEF Parse
  <2>2. FilesType' /\ SchemaType' /\ asked' \in SUBSET Language
    BY <1>0, <2>1 DEF FilesType, SchemaType, RunProgress
  <2>3. CASE End("failed")
    BY <2>1, <2>2, <2>3, FailStep
  <2>4. CASE phase' = "gen" /\ UNCHANGED <<left, status>>
    <3>1. RunProgress'
      BY <1>0, <2>1, <2>2, <2>4 DEF RunProgress, SuccessMeansGenerated
    <3>. QED BY <2>2, <3>1 DEF SmfcInv
  <2>. QED BY <2>1, <2>3, <2>4
<1>5. ASSUME NEW b \in BOOLEAN, Gen(b) PROVE SmfcInv'
  <2> DEFINE l == Head(left)
  <2>1. phase = "gen" /\ left # <<>> /\ UNCHANGED <<schema, asked>>
        /\ \/ /\ files' = [files EXCEPT ![l] = Code(l, schema)]
              /\ left' = Tail(left) /\ UNCHANGED <<phase, status>>
           \/ /\ files' = [files EXCEPT ![l] = NoCode]
              /\ End("failed")
    BY <1>5 DEF Gen
  <2>2. l \in Language /\ Tail(left) \in Seq(Language)
        /\ \A x \in ToSet(left) : x = l \/ x \in ToSet(Tail(left))
    BY <1>0, <2>1, LeftTail DEF RunProgress
  <2>3. Code(l, schema) \in Generated
    BY <1>0, <2>2, CodeType DEF SchemaType
  <2>. HIDE DEF l
  <2>4. FilesType' /\ SchemaType' /\ asked' \in SUBSET Language
    BY <1>0, <2>1, <2>2, <2>3 DEF FilesType, SchemaType, RunProgress
  <2>5. CASE files' = [files EXCEPT ![l] = Code(l, schema)] /\ left' = Tail(left)
             /\ UNCHANGED <<phase, status>>
    <3>1. \A x \in asked : x \in Language /\ (x \in ToSet(left) \/ files[x] = Code(x, schema))
      BY <1>0, <2>1 DEF RunProgress
    <3>2. \A x \in asked : x \in ToSet(Tail(left)) \/ files'[x] = Code(x, schema)
      BY <1>0, <2>2, <2>5, <3>1 DEF FilesType
    <3>3. status # "ok"
      BY <1>0, <2>1 DEF RunProgress
    <3>4. RunProgress'
      BY <1>0, <2>1, <2>2, <2>5, <3>2, <3>3 DEF RunProgress, SuccessMeansGenerated
    <3>. QED BY <2>4, <3>4 DEF SmfcInv
  <2>6. CASE End("failed")
    BY <2>1, <2>4, <2>6, FailStep
  <2>. QED BY <2>1, <2>5, <2>6
<1>6. CASE Return
  <2>1. phase = "gen" /\ left = <<>> /\ phase' = "idle" /\ left' = <<>> /\ status' = "ok"
        /\ UNCHANGED <<schema, asked, files>>
    BY <1>6 DEF Return, End
  <2>2. ToSet(left) = {}
    BY <2>1 DEF ToSet
  <2>3. \A l \in asked : files[l] = Code(l, schema)
    BY <1>0, <2>1, <2>2 DEF RunProgress
  <2>. QED BY <1>0, <2>1, <2>3 DEF SmfcInv, SchemaType, FilesType, RunProgress, SuccessMeansGenerated
<1>. QED BY <1>1, <1>2, <1>3, <1>4, <1>5, <1>6, ZenonT(60) DEF Smfc

-----------------------------------------------------------------------------
(* Servers and clients.                                                    *)

Built == linked \in Seq(Class) /\ server \in Seq(Class) /\ clients \in SUBSET ClientMethod

\* What servers and clients are built from was generated at some time.
LEMMA NextRouting == SmfcInv /\ Built /\ [Next]_vars => SmfcInv' /\ Built'
<1> SUFFICES ASSUME SmfcInv, Built, [Next]_vars PROVE SmfcInv' /\ Built'
  OBVIOUS
<1>1. CASE Smfc /\ UNCHANGED <<linked, server, clients>>
  BY <1>1, SmfcStep DEF Built
<1>2. UNCHANGED genVars => SmfcInv'
  BY DEF genVars, SmfcInv, SchemaType, FilesType, RunProgress, SuccessMeansGenerated
<1>3. \A l \in Language : files[l] # NoCode => files[l] \in Generated
  BY DEF SmfcInv, FilesType
<1>4. CASE BuildServer
  <2>1. files["cpp"] \in Generated
    BY <1>3, <1>4 DEF BuildServer, Language
  <2>2. linked' = files["cpp"].services /\ server' = <<>> /\ UNCHANGED <<genVars, clients>>
    BY <1>4 DEF BuildServer
  <2>. QED BY <1>2, <2>1, <2>2 DEF Built, Generated
<1>5. ASSUME NEW k \in DOMAIN linked, RegisterService(k) PROVE SmfcInv' /\ Built'
  <2>1. server' = Append(server, linked[k]) /\ UNCHANGED <<genVars, linked, clients>>
    BY <1>5 DEF RegisterService
  <2>. QED BY <1>2, <2>1 DEF Built
<1>6. ASSUME NEW l \in Language, BuildClient(l) PROVE SmfcInv' /\ Built'
  <2>1. files[l] \in Generated
    BY <1>3, <1>6 DEF BuildClient
  <2>2. clients' = clients \cup files[l].clients /\ UNCHANGED <<genVars, linked, server>>
    BY <1>6 DEF BuildClient
  <2>. QED BY <1>2, <2>1, <2>2 DEF Built, Generated
<1>7. CASE UNCHANGED vars
  BY <1>2, <1>7 DEF vars, Built
<1>. QED BY <1>1, <1>4, <1>5, <1>6, <1>7, ZenonT(60) DEF Next

\* The invariant holds throughout.
THEOREM RoutingInvariance == Spec => [](SmfcInv /\ Built)
<1>1. RInit => SmfcInv /\ Built
  BY InitSmfc DEF RInit, Built
<1>. QED BY <1>1, NextRouting, PTL DEF Spec

\* codegen::gen stops at the first language that fails, so that an exit with 0
\* vouches for all of them, whatever --language held.
THEOREM ExitMeansGenerated == Spec => []SuccessMeansGenerated
<1>1. SmfcInv => SuccessMeansGenerated
  BY DEF SmfcInv, RunProgress
<1>. QED BY <1>1, RoutingInvariance, PTL

-----------------------------------------------------------------------------
(* Which handle gets a call.                                               *)

\* A class sends id to the method whose id it is, if it has the method.
LEMMA ClassRoutes ==
  ASSUME NEW t \in Class, NEW n \in Name, NEW m \in Sig
  PROVE  MethodForRequestId(t, Xor(Crc[n], Crc[m])) =
           IF t.service = n /\ m \in ToSet(t.handles)
           THEN [service |-> n, method |-> m] ELSE NoHandle
<1> DEFINE id == Xor(Crc[n], Crc[m])
           hits == {i \in DOMAIN t.cases : t.cases[i] = id}
<1>1. PICK sv \in Service : t = ServiceClass(sv)
  BY DEF Class
<1>2. sv.name \in Name /\ sv.methods \in Seq(Sig)
  BY DEF Service
<1>3. /\ t.service = sv.name /\ t.handles = sv.methods
      /\ DOMAIN t.cases = DOMAIN sv.methods
      /\ \A i \in DOMAIN sv.methods : t.cases[i] = Xor(Crc[sv.name], Crc[sv.methods[i]])
  BY <1>1 DEF ServiceClass, RequestId
<1>4. \A i \in DOMAIN sv.methods : sv.methods[i] \in Sig /\ i \in Nat
  BY <1>2
<1>5. ASSUME NEW i \in DOMAIN sv.methods
      PROVE  t.cases[i] = id <=> sv.name = n /\ sv.methods[i] = m
  <2>1. t.cases[i] = Xor(Crc[sv.name], Crc[sv.methods[i]]) /\ sv.methods[i] \in Sig
    BY <1>3, <1>4
  <2>2. ASSUME t.cases[i] = id PROVE sv.name = n /\ sv.methods[i] = m
    <3> DEFINE p == sv.name
               q == sv.methods[i]
    <3>1. Xor(Crc[p], Crc[q]) = Xor(Crc[n], Crc[m]) /\ p \in Name /\ q \in Sig
      BY <1>2, <2>1, <2>2, Zenon
    <3>. HIDE DEF p, q
    <3>2. p = n /\ q = m
      BY <3>1, IdsDistinct
    <3>. QED BY <3>2 DEF p, q
  <2>3. sv.name = n /\ sv.methods[i] = m => t.cases[i] = id
    BY <2>1, Zenon
  <2>. QED BY <2>2, <2>3
<1>. HIDE DEF id
<1>6. CASE hits = {}
  <2>1. ~(t.service = n /\ m \in ToSet(t.handles))
    BY <1>3, <1>5, <1>6, Zenon DEF ToSet
  <2>. QED BY <1>6, <2>1, Zenon DEF MethodForRequestId, id
<1>7. CASE hits # {}
  <2>1. hits \in SUBSET Nat
    BY <1>3, <1>4
  <2>2. Min(hits) \in hits
    <3>1. \E i \in hits : \A j \in hits : i <= j
      <4>. HIDE DEF hits
      <4>. QED BY <1>7, <2>1, SmallestNumber
    <3>. HIDE DEF hits
    <3>. QED BY <3>1, Zenon DEF Min
  <2>3. Min(hits) \in DOMAIN sv.methods /\ t.cases[Min(hits)] = id
    BY <1>3, <2>2, Zenon
  <2>4. t.service = n /\ t.handles[Min(hits)] = m /\ m \in ToSet(t.handles)
    BY <1>3, <1>5, <2>3, Zenon DEF ToSet
  <2>5. MethodForRequestId(t, id) = [service |-> t.service, method |-> t.handles[Min(hits)]]
    BY <1>7, Zenon DEF MethodForRequestId
  <2>. QED BY <2>4, <2>5, Zenon DEF id
<1>. QED BY <1>6, <1>7

\* "we should keep the same id=same_handle even through multiple code generation
\* phases" (docs/rpc.md): rpc_handle_router finds the method a client of any age
\* and language meant, or nothing.
THEOREM HandlesStaySame == Spec => []SameHandle
<1>1. Built => SameHandle
  <2> SUFFICES ASSUME Built, NEW c \in clients
      PROVE  GetHandleForRequest(c.id) =
               IF \E j \in DOMAIN server : server[j].service = c.service
                                           /\ c.method \in ToSet(server[j].handles)
               THEN [service |-> c.service, method |-> c.method] ELSE NoHandle
    BY Zenon DEF SameHandle
  <2> DEFINE hits == {j \in DOMAIN server : MethodForRequestId(server[j], c.id) # NoHandle}
             mine == [service |-> c.service, method |-> c.method]
  <2>1. PICK sv \in Service : c \in ClientClass(sv)
    BY DEF Built, ClientMethod
  <2>2. PICK i \in DOMAIN sv.methods :
          c = [service |-> sv.name, method |-> sv.methods[i], id |-> RequestId(sv, i)]
    BY <2>1, Zenon DEF ClientClass
  <2>3. c.service \in Name /\ c.method \in Sig /\ c.id = Xor(Crc[c.service], Crc[c.method])
    BY <2>2 DEF Service, RequestId
  <2>4. \A j \in DOMAIN server : server[j] \in Class /\ j \in Nat
    BY DEF Built
  <2>5. \A j \in DOMAIN server :
          MethodForRequestId(server[j], c.id) =
            IF server[j].service = c.service /\ c.method \in ToSet(server[j].handles)
            THEN mine ELSE NoHandle
    BY <2>3, <2>4, ClassRoutes
  <2>6. mine # NoHandle
    BY <2>3, NoHandleAssumption
  <2>. HIDE DEF mine
  <2>7. CASE hits = {}
    <3>1. GetHandleForRequest(c.id) = NoHandle
      BY <2>7, Zenon DEF GetHandleForRequest
    <3>. QED BY <2>5, <2>6, <2>7, <3>1, Zenon DEF mine
  <2>8. CASE hits # {}
    <3>1. Min(hits) \in hits
      <4>1. hits \in SUBSET Nat
        BY <2>4
      <4>. HIDE DEF hits
      <4>2. \E j \in hits : \A k \in hits : j <= k
        BY <2>8, <4>1, SmallestNumber
      <4>. QED BY <4>2, Zenon DEF Min
    <3>2. GetHandleForRequest(c.id) = MethodForRequestId(server[Min(hits)], c.id)
      BY <2>8, Zenon DEF GetHandleForRequest
    <3>. QED BY <2>5, <2>6, <3>1, <3>2, Zenon DEF mine
  <2>. QED BY <2>7, <2>8
<1>. QED BY <1>1, RoutingInvariance, PTL
=============================================================================
