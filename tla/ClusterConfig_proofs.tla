------------------------ MODULE ClusterConfig_proofs ------------------------
(***************************************************************************)
(* Proofs about ClusterConfig. The invariant says of both the list in      *)
(* memory and the file that they are lists of clusters told apart by their *)
(* names, one active at most; each operation on lists keeps that. So for   *)
(* any names, details and Connect clusters the configuration implements    *)
(* the store.                                                              *)
(***************************************************************************)
EXTENDS ClusterConfig, SequenceTheorems, WellFoundedInduction, TLAPS

WellFormed(cs) == cs \in Seq(Cluster) /\ Distinct(cs) /\ OneActive(cs)

IInv ==
  /\ WellFormed(clusters)
  /\ WellFormed(file)
  /\ phase \in {"idle", "truncate", "write", "stopped"}
  /\ phase = "idle" => file = clusters
  /\ answer \in Cluster \cup {NoCluster}

-----------------------------------------------------------------------------
(* The operations on lists                                                 *)

\* The first of a set of positions is one of them.
LEMMA FirstIsMember ==
  ASSUME NEW I, I \subseteq Nat, I # {}
  PROVE  FirstOf(I) \in I
<1> DEFINE Less == OpToRel(<, Nat)
<1>1. IsWellFoundedOn(Less, Nat)
  BY NatLessThanWellFounded
<1>2. \A i, j \in Nat : j < i => <<j, i>> \in Less
  BY DEF OpToRel
<1> HIDE DEF Less
<1>3. \E i \in I : \A j \in I : ~ (<<j, i>> \in Less)
  BY <1>1, WFMin
<1>4. PICK i \in I : \A j \in I : ~ (<<j, i>> \in Less)
  BY <1>3
<1>5. ASSUME NEW j \in I PROVE i <= j
  <2>1. i \in Nat /\ j \in Nat
    OBVIOUS
  <2>2. ~ (<<j, i>> \in Less)
    BY <1>4
  <2>3. ~ (j < i)
    BY <1>2, <2>1, <2>2, Zenon
  <2>. QED
    BY <2>1, <2>3
<1>. QED
  BY <1>5 DEF FirstOf

\* The cluster found by its name is a position of the list with that name.
LEMMA FirstNamed ==
  ASSUME NEW cs \in Seq(Cluster), NEW n, Named(cs, n) # {}
  PROVE  /\ FirstOf(Named(cs, n)) \in 1 .. Len(cs)
         /\ cs[FirstOf(Named(cs, n))].name = n
<1>1. Named(cs, n) \subseteq 1 .. Len(cs)
  BY DEF Named
<1>2. FirstOf(Named(cs, n)) \in Named(cs, n)
  BY <1>1, FirstIsMember
<1>. QED
  BY <1>1, <1>2 DEF Named

\* What setting a field of a cluster gives.
LEMMA SetActive ==
  ASSUME NEW c \in Cluster, NEW a \in BOOLEAN
  PROVE  /\ [c EXCEPT !.active = a] \in Cluster
         /\ [c EXCEPT !.active = a].name = c.name
         /\ [c EXCEPT !.active = a].active = a
BY Zenon DEF Cluster

LEMMA SetConnect ==
  ASSUME NEW c \in Cluster, NEW K \in SUBSET Connects
  PROVE  /\ [c EXCEPT !.connect = K] \in Cluster
         /\ [c EXCEPT !.connect = K].name = c.name
         /\ [c EXCEPT !.connect = K].active = c.active
BY Zenon DEF Cluster

\* Putting a cluster in the place of another: it must not take a name in use
\* and must not be active beside an active one.
LEMMA PutWellFormed ==
  ASSUME NEW cs, WellFormed(cs), NEW k \in 1 .. Len(cs), NEW c \in Cluster,
         c.name = cs[k].name \/ c.name \notin InUse(cs),
         c.active => \A i \in 1 .. Len(cs) : i # k => ~ cs[i].active
  PROVE  WellFormed([cs EXCEPT ![k] = c])
<1> DEFINE put == [cs EXCEPT ![k] = c]
<1>1. cs \in Seq(Cluster) /\ Distinct(cs) /\ OneActive(cs)
  BY DEF WellFormed
<1>2. /\ put \in Seq(Cluster)
      /\ DOMAIN put = DOMAIN cs
      /\ put[k] = c
      /\ \A i \in DOMAIN cs : i # k => put[i] = cs[i]
  BY <1>1
<1> HIDE DEF put
<1>3. Distinct(put)
  BY <1>1, <1>2 DEF Distinct, InUse
<1>4. OneActive(put)
  BY <1>1, <1>2 DEF OneActive
<1>. QED
  BY <1>2, <1>3, <1>4 DEF WellFormed, put

\* RegisterCluster with a validated name keeps the list well formed, and
\* returns a cluster.
LEMMA RegisteredWellFormed ==
  ASSUME NEW cs, WellFormed(cs), NEW r \in Registration,
         r.newName # NoName => r.newName \notin InUse(cs)
  PROVE  /\ WellFormed(Registered(cs, r))
         /\ ToCluster(cs, r) \in Cluster
<1> DEFINE k == FirstOf(Named(cs, r.name))
           new == ToCluster(cs, r)
<1>0. cs \in Seq(Cluster) /\ Distinct(cs) /\ OneActive(cs)
  BY DEF WellFormed
<1>1. /\ r.name \in Names /\ r.newName \in Names \cup {NoName}
      /\ r.details \in Details /\ r.connect \in SUBSET Connects
  BY RequestedAssumption DEF Registration
<1>2. CASE Named(cs, r.name) = {}
  <2>1. /\ new \in Cluster
        /\ new.name = r.name
        /\ new.active = (cs = <<>>)
    BY <1>1, <1>2 DEF ToCluster, Cluster
  <2>2. \A i \in 1 .. Len(cs) : cs[i].name # r.name
    BY <1>0, <1>2 DEF Named
  <2>3. WellFormed(Append(cs, new))
    <3> DEFINE longer == Append(cs, new)
    <3>. HIDE DEF new
    <3>1. /\ longer \in Seq(Cluster)
          /\ Len(longer) = Len(cs) + 1
          /\ \A i \in 1 .. Len(cs) : longer[i] = cs[i]
          /\ longer[Len(cs) + 1] = new
      BY <1>0, <2>1, AppendProperties
    <3>2. cs = <<>> \/ ~ new.active
      BY <2>1
    <3>. HIDE DEF longer
    <3>3. Distinct(longer)
      BY <1>0, <2>1, <2>2, <3>1 DEF Distinct
    <3>4. OneActive(longer)
      BY <1>0, <3>1, <3>2 DEF OneActive
    <3>. QED
      BY <3>1, <3>3, <3>4 DEF WellFormed, longer
  <2>. QED
    BY <1>2, <2>1, <2>3 DEF Registered
<1>3. CASE Named(cs, r.name) # {}
  <2>1. k \in 1 .. Len(cs) /\ cs[k].name = r.name /\ cs[k] \in Cluster
    BY <1>0, <1>3, FirstNamed
  <2>2. new \in Cluster /\ new.name = r.name /\ new.active = cs[k].active
    BY <1>1, <1>3, <2>1 DEF ToCluster, Cluster
  <2> DEFINE put == [new EXCEPT !.name = IF r.newName = NoName THEN @ ELSE r.newName]
  <2>3. /\ put \in Cluster
        /\ put.active = cs[k].active
        /\ put.name = r.name \/ put.name \notin InUse(cs)
    <3>. HIDE DEF new
    <3>. QED
      BY <1>1, <2>2 DEF Cluster
  <2>4. Registered(cs, r) = [cs EXCEPT ![k] = put]
    BY <1>3 DEF Registered
  <2>5. WellFormed([cs EXCEPT ![k] = put])
    <3>1. put.name = cs[k].name \/ put.name \notin InUse(cs)
      BY <2>1, <2>3
    <3>2. put.active => \A i \in 1 .. Len(cs) : i # k => ~ cs[i].active
      BY <1>0, <2>1, <2>3 DEF OneActive
    <3>. HIDE DEF put, k
    <3>. QED
      BY <2>1, <2>3, <3>1, <3>2, PutWellFormed
  <2>. QED
    BY <2>2, <2>4, <2>5
<1>. QED
  BY <1>2, <1>3

\* SwitchCluster keeps the list well formed.
LEMMA SwitchedWellFormed ==
  ASSUME NEW cs, WellFormed(cs), NEW n
  PROVE  WellFormed(Switched(cs, n))
<1>1. Switched(cs, n) \in Seq(Cluster)
  <2>1. \A i \in 1 .. Len(cs) : [cs[i] EXCEPT !.active = cs[i].name = n] \in Cluster
    <3>1. \A i \in 1 .. Len(cs) : cs[i] \in Cluster /\ (cs[i].name = n) \in BOOLEAN
      BY DEF WellFormed
    <3>. QED
      BY <3>1, SetActive, Zenon
  <2>2. Switched(cs, n) \in [1 .. Len(cs) -> Cluster]
    BY <2>1 DEF Switched, WellFormed
  <2>. QED
    BY <2>2 DEF WellFormed
<1>2. /\ DOMAIN Switched(cs, n) = DOMAIN cs
      /\ \A i \in DOMAIN cs : /\ Switched(cs, n)[i].name = cs[i].name
                              /\ Switched(cs, n)[i].active = (cs[i].name = n)
  <2>1. \A i \in DOMAIN cs : cs[i] \in Cluster /\ (cs[i].name = n) \in BOOLEAN
    BY DEF WellFormed
  <2>2. ASSUME NEW i \in DOMAIN cs
        PROVE  /\ [cs[i] EXCEPT !.active = (cs[i].name = n)].name = cs[i].name
               /\ [cs[i] EXCEPT !.active = (cs[i].name = n)].active = (cs[i].name = n)
    <3> DEFINE b == cs[i].name = n
               c == cs[i]
    <3>1. c \in Cluster /\ b \in BOOLEAN
      BY <2>1
    <3>. HIDE DEF b, c
    <3>2. [c EXCEPT !.active = b].name = c.name /\ [c EXCEPT !.active = b].active = b
      BY <3>1, SetActive, Zenon
    <3>. QED
      BY <3>2 DEF b, c
  <2>3. DOMAIN Switched(cs, n) = DOMAIN cs
    BY DEF Switched
  <2>4. \A i \in DOMAIN cs : Switched(cs, n)[i] = [cs[i] EXCEPT !.active = (cs[i].name = n)]
    BY DEF Switched
  <2>. QED
    BY <2>2, <2>3, <2>4, Zenon
<1>3. Distinct(Switched(cs, n))
  <2>1. Distinct(cs)
    BY DEF WellFormed
  <2>. QED
    BY <1>2, <2>1, Zenon DEF Distinct
<1>4. OneActive(Switched(cs, n))
  <2>1. Distinct(cs)
    BY DEF WellFormed
  <2>. QED
    BY <1>2, <2>1, Zenon DEF Distinct, OneActive
<1>. QED
  BY <1>1, <1>3, <1>4 DEF WellFormed

\* Taking one cluster out of a list.
LEMMA WithoutWellFormed ==
  ASSUME NEW cs, WellFormed(cs), NEW k \in 1 .. Len(cs)
  PROVE  /\ WellFormed(Without(cs, k))
         /\ Len(Without(cs, k)) = Len(cs) - 1
         /\ cs[k].active => \A i \in 1 .. Len(cs) - 1 : ~ Without(cs, k)[i].active
<1> DEFINE At(i) == IF i < k THEN i ELSE i + 1
<1>1. cs \in Seq(Cluster) /\ Distinct(cs) /\ OneActive(cs)
  BY DEF WellFormed
<1>2. Len(cs) - 1 \in Nat
  BY <1>1
<1>3. \A i \in 1 .. Len(cs) - 1 : /\ At(i) \in 1 .. Len(cs)
                                  /\ At(i) # k
                                  /\ Without(cs, k)[i] = cs[At(i)]
  BY <1>1 DEF Without
<1>4. \A i, j \in 1 .. Len(cs) - 1 : At(i) = At(j) => i = j
  BY <1>1
<1>5. Without(cs, k) \in Seq(Cluster) /\ Len(Without(cs, k)) = Len(cs) - 1
  <2>1. Without(cs, k) \in [1 .. Len(cs) - 1 -> Cluster]
    BY <1>1 DEF Without
  <2>. QED
    BY <1>2, <2>1
<1>6. Distinct(Without(cs, k)) /\ OneActive(Without(cs, k))
  <2>1. DOMAIN Without(cs, k) = 1 .. Len(cs) - 1
    BY <1>5
  <2>. HIDE DEF At
  <2>2. Distinct(Without(cs, k))
    BY <1>1, <1>3, <1>4, <2>1 DEF Distinct
  <2>3. OneActive(Without(cs, k))
    BY <1>1, <1>3, <1>4, <2>1 DEF OneActive
  <2>. QED
    BY <2>2, <2>3
<1>7. cs[k].active => \A i \in 1 .. Len(cs) - 1 : ~ Without(cs, k)[i].active
  <2>. HIDE DEF At
  <2>. QED
    BY <1>1, <1>3 DEF OneActive
<1>. QED
  BY <1>5, <1>6, <1>7 DEF WellFormed

\* DeleteCluster keeps the list well formed.
LEMMA DeletedWellFormed ==
  ASSUME NEW cs, WellFormed(cs), NEW n
  PROVE  WellFormed(Deleted(cs, n))
<1>1. CASE Named(cs, n) = {}
  BY <1>1 DEF Deleted
<1>2. CASE Named(cs, n) # {}
  <2> DEFINE k    == FirstOf(Named(cs, n))
             rest == Without(cs, k)
  <2>1. k \in 1 .. Len(cs)
    BY <1>2, FirstNamed DEF WellFormed
  <2>2. /\ WellFormed(rest)
        /\ Len(rest) = Len(cs) - 1
        /\ cs[k].active => \A i \in 1 .. Len(cs) - 1 : ~ rest[i].active
    BY <2>1, WithoutWellFormed
  <2>3. ASSUME cs[k].active, rest # <<>>
        PROVE  WellFormed([rest EXCEPT ![1].active = TRUE])
    <3>. HIDE DEF rest
    <3>1. rest \in Seq(Cluster) /\ 1 \in 1 .. Len(rest)
      BY <2>2, <2>3 DEF WellFormed
    <3>2. /\ [rest[1] EXCEPT !.active = TRUE] \in Cluster
          /\ [rest[1] EXCEPT !.active = TRUE].name = rest[1].name
      <4>1. rest[1] \in Cluster
        BY <3>1
      <4>. QED
        BY <4>1, SetActive, Zenon
    <3>3. \A i \in 1 .. Len(rest) : ~ rest[i].active
      BY <2>2, <2>3
    <3>. QED
      BY <2>2, <3>1, <3>2, <3>3, PutWellFormed
  <2>. QED
    BY <1>2, <2>2, <2>3 DEF Deleted
<1>. QED
  BY <1>1, <1>2

\* DeleteKafkaConnectCluster keeps the list well formed.
LEMMA ConnectDeletedWellFormed ==
  ASSUME NEW cs, WellFormed(cs), NEW n, NEW c
  PROVE  WellFormed(ConnectDeleted(cs, n, c))
<1> DEFINE Holding == {i \in Named(cs, n) : c \in cs[i].connect}
           k == FirstOf(Holding)
<1>1. CASE Holding = {}
  BY <1>1 DEF ConnectDeleted
<1>2. CASE Holding # {}
  <2>1. Holding \subseteq 1 .. Len(cs)
    BY DEF Named, WellFormed
  <2>2. k \in 1 .. Len(cs)
    BY <1>2, <2>1, FirstIsMember
  <2>3. ConnectDeleted(cs, n, c) = [cs EXCEPT ![k].connect = @ \ {c}]
    BY <1>2 DEF ConnectDeleted
  <2> DEFINE new == [cs[k] EXCEPT !.connect = @ \ {c}]
  <2> HIDE DEF k
  <2>4. new \in Cluster /\ new.name = cs[k].name /\ new.active = cs[k].active
    <3>1. cs[k] \in Cluster
      BY <2>2 DEF WellFormed
    <3>2. cs[k].connect \ {c} \in SUBSET Connects
      BY <3>1 DEF Cluster
    <3>. QED
      BY <3>1, <3>2, SetConnect
  <2>5. \A i \in 1 .. Len(cs) : cs[k].active /\ i # k => ~ cs[i].active
    BY <2>2 DEF WellFormed, OneActive
  <2>6. ConnectDeleted(cs, n, c) = [cs EXCEPT ![k] = new]
    BY <2>3
  <2>. HIDE DEF new
  <2>7. new.active => \A i \in 1 .. Len(cs) : i # k => ~ cs[i].active
    BY <2>4, <2>5, Zenon
  <2>8. WellFormed([cs EXCEPT ![k] = new])
    BY <2>2, <2>4, <2>7, PutWellFormed
  <2>. QED
    BY <2>6, <2>8
<1>. QED
  BY <1>1, <1>2

\* FindClusterByName returns a cluster or nil.
LEMMA FoundIsCluster ==
  ASSUME NEW cs \in Seq(Cluster), NEW n
  PROVE  Found(cs, n) \in Cluster \cup {NoCluster}
BY FirstNamed DEF Found

-----------------------------------------------------------------------------
(* The invariant                                                           *)

LEMMA EmptyWellFormed == WellFormed(<<>>)
BY DEF WellFormed, Distinct, OneActive

LEMMA InitIInv == Init => IInv
BY FilesAssumption DEF Init, IInv, WellFormed, NoCluster

LEMMA NextIInv == IInv /\ [Next]_vars => IInv'
<1> SUFFICES ASSUME IInv, [Next]_vars PROVE IInv'
  OBVIOUS
<1>. USE DEF IInv
<1>1. ASSUME NEW r \in Registration, RegisterCluster(r) PROVE IInv'
  <2>1. /\ WellFormed(Registered(clusters, r))
        /\ ToCluster(clusters, r) \in Cluster
    BY <1>1, RegisteredWellFormed DEF RegisterCluster, Validated
  <2>. QED
    BY <1>1, <2>1 DEF RegisterCluster, Flush
<1>2. ASSUME NEW n \in Names, SwitchCluster(n) PROVE IInv'
  <2>1. WellFormed(clusters')
    BY <1>2, SwitchedWellFormed DEF SwitchCluster
  <2>2. answer' \in Cluster \cup {NoCluster}
    BY <1>2, <2>1, FoundIsCluster DEF SwitchCluster, WellFormed
  <2>. QED
    BY <1>2, <2>1, <2>2 DEF SwitchCluster, Flush
<1>3. ASSUME NEW n \in Names, DeleteCluster(n) PROVE IInv'
  BY <1>3, DeletedWellFormed DEF DeleteCluster, Flush, NoCluster
<1>4. ASSUME NEW n \in Names, NEW k \in Connects,
             DeleteKafkaConnectCluster(n, k)
      PROVE  IInv'
  BY <1>4, ConnectDeletedWellFormed DEF DeleteKafkaConnectCluster, Flush
<1>5. CASE Truncate
  BY <1>5, EmptyWellFormed DEF Truncate
<1>6. CASE Write
  BY <1>6 DEF Write
<1>7. CASE Stop
  BY <1>7 DEF Stop
<1>8. CASE Start
  BY <1>8 DEF Start
<1>9. CASE UNCHANGED vars
  BY <1>9 DEF vars
<1>. QED
  BY <1>1, <1>2, <1>3, <1>4, <1>5, <1>6, <1>7, <1>8, <1>9 DEF Next

\* Every operation keeps the types (config.go, file.go).
THEOREM ConfigTypeCorrect == Spec => []TypeOK
<1>1. IInv => TypeOK
  BY DEF IInv, WellFormed, TypeOK
<1>. QED
  BY <1>1, InitIInv, NextIInv, PTL DEF Spec

\* With the form's validation no two clusters get the same name.
THEOREM NamesStayUnique == Spec => []NamesUnique
<1>1. IInv => NamesUnique
  BY DEF IInv, WellFormed, NamesUnique
<1>. QED
  BY <1>1, InitIInv, NextIInv, PTL DEF Spec

\* No two clusters are ever marked active, in memory or in the file.
THEOREM OneStaysActive == Spec => []AtMostOneActive
<1>1. IInv => AtMostOneActive
  BY DEF IInv, WellFormed, AtMostOneActive
<1>. QED
  BY <1>1, InitIInv, NextIInv, PTL DEF Spec

\* Every operation leaves the file as it leaves the list.
THEOREM FileFollows == Spec => []FileCurrent
<1>1. IInv => FileCurrent
  BY DEF IInv, FileCurrent
<1>. QED
  BY <1>1, InitIInv, NextIInv, PTL DEF Spec

-----------------------------------------------------------------------------
(* The configuration implements the store: a well formed list is a map     *)
(* from names to settings with an active name, and each operation on lists *)
(* does one thing to that map.                                             *)

Settings == [details : Details, connect : SUBSET Connects]

-----------------------------------------------------------------------------
(* The list as a map                                                       *)

\* In a well formed list a cluster is the one found by its name.
LEMMA FoundByName ==
  ASSUME NEW cs, WellFormed(cs), NEW i \in DOMAIN cs
  PROVE  Found(cs, cs[i].name) = cs[i]
<1>1. cs \in Seq(Cluster) /\ Distinct(cs) /\ i \in Named(cs, cs[i].name)
  BY DEF WellFormed, Named
<1>2. FirstOf(Named(cs, cs[i].name)) \in DOMAIN cs /\ cs[FirstOf(Named(cs, cs[i].name))].name = cs[i].name
  BY <1>1, FirstNamed
<1>3. FirstOf(Named(cs, cs[i].name)) = i
  BY <1>1, <1>2 DEF Distinct
<1> QED BY <1>1, <1>3 DEF Found

\* The map of a well formed list has its names and the settings they come with.
LEMMA EntriesAreSettings ==
  ASSUME NEW cs, WellFormed(cs)
  PROVE  /\ InUse(cs) \subseteq Names
         /\ EntriesOf(cs) \in [InUse(cs) -> Settings]
         /\ \A i \in DOMAIN cs : EntriesOf(cs)[cs[i].name] = SettingsOf(cs[i])
<1>1. \A i \in DOMAIN cs : cs[i] \in Cluster
  BY DEF WellFormed
<1>2. \A i \in DOMAIN cs : cs[i].name \in Names /\ SettingsOf(cs[i]) \in Settings
  BY <1>1 DEF Cluster, SettingsOf, Settings
<1>3. \A i \in DOMAIN cs : Found(cs, cs[i].name) = cs[i]
  BY FoundByName
<1>4. \A n \in InUse(cs) : SettingsOf(Found(cs, n)) \in Settings
  BY <1>2, <1>3 DEF InUse
<1>5. \A i \in DOMAIN cs : cs[i].name \in InUse(cs)
  BY DEF InUse
<1>6. InUse(cs) \subseteq Names
  BY <1>2 DEF InUse
<1>7. EntriesOf(cs) \in [InUse(cs) -> Settings]
  BY <1>4 DEF EntriesOf
<1>8. \A i \in DOMAIN cs : EntriesOf(cs)[cs[i].name] = SettingsOf(cs[i])
  BY <1>3, <1>5 DEF EntriesOf
<1> QED BY <1>6, <1>7, <1>8

\* A map with the same names and settings is the map of the list.
LEMMA EntriesOnly ==
  ASSUME NEW cs, WellFormed(cs), NEW f \in [InUse(cs) -> Settings],
         \A i \in DOMAIN cs : f[cs[i].name] = SettingsOf(cs[i])
  PROVE  EntriesOf(cs) = f
<1>1. \A n \in InUse(cs) : f[n] = EntriesOf(cs)[n]
  <2>1. \A i \in DOMAIN cs : f[cs[i].name] = EntriesOf(cs)[cs[i].name]
    BY EntriesAreSettings
  <2> QED BY <2>1 DEF InUse
<1> QED BY <1>1, EntriesAreSettings

\* A list without names is empty.
LEMMA EmptyIfUnnamed ==
  ASSUME NEW cs, WellFormed(cs) PROVE InUse(cs) = {} <=> cs = <<>>
<1>1. cs \in Seq(Cluster)
  BY DEF WellFormed
<1>2. cs # <<>> => 1 \in DOMAIN cs
  BY <1>1
<1>3. cs = <<>> => DOMAIN cs = {}
  OBVIOUS
<1> QED BY <1>2, <1>3 DEF InUse

\* The active cluster is the one marked, else the first.
LEMMA ActiveByMark ==
  ASSUME NEW cs, WellFormed(cs)
  PROVE  /\ \A i \in DOMAIN cs : cs[i].active => ActiveName(cs) = cs[i].name
         /\ cs # <<>> /\ (\A i \in DOMAIN cs : ~cs[i].active) => ActiveName(cs) = cs[1].name
         /\ cs = <<>> => ActiveName(cs) = NoName
         /\ cs # <<>> => ActiveName(cs) \in InUse(cs)
<1>1. cs \in Seq(Cluster) /\ OneActive(cs)
  BY DEF WellFormed
<1>2. ASSUME NEW i \in DOMAIN cs, cs[i].active PROVE ActiveCluster(cs) = cs[i]
  <2>1. i \in Active(cs) /\ Active(cs) \subseteq Nat
    BY <1>1, <1>2 DEF Active
  <2>2. FirstOf(Active(cs)) \in Active(cs)
    BY <2>1, FirstIsMember
  <2>3. FirstOf(Active(cs)) = i
    BY <1>1, <1>2, <2>2 DEF Active, OneActive
  <2> QED BY <2>1, <2>3 DEF ActiveCluster
<1>3. (\A i \in DOMAIN cs : ~cs[i].active) => Active(cs) = {}
  BY DEF Active
<1>4. cs # <<>> => 1 \in DOMAIN cs
  BY <1>1
<1>5. cs # <<>> /\ (\A i \in DOMAIN cs : ~cs[i].active) => ActiveName(cs) = cs[1].name
  BY <1>3 DEF ActiveCluster, ActiveName
<1>6. cs = <<>> => ActiveName(cs) = NoName
  BY DEF ActiveCluster, ActiveName, NoCluster, Active
<1>7. \A i \in DOMAIN cs : cs[i].active => ActiveName(cs) = cs[i].name
  BY <1>2 DEF ActiveName
<1>8. cs # <<>> => ActiveName(cs) \in InUse(cs)
  BY <1>4, <1>5, <1>7 DEF InUse
<1> QED BY <1>5, <1>6, <1>7, <1>8

-----------------------------------------------------------------------------
(* The operations as operations on the map                                 *)

\* Registering a new name adds it; it is the active one if it is the first.
LEMMA AppendedIsAdded ==
  ASSUME NEW cs, WellFormed(cs), NEW c \in Cluster, WellFormed(Append(cs, c)),
         c.name \notin InUse(cs), c.active = (cs = <<>>)
  PROVE  /\ InUse(Append(cs, c)) = InUse(cs) \cup {c.name}
         /\ \A n \in InUse(cs) : EntriesOf(Append(cs, c))[n] = EntriesOf(cs)[n]
         /\ ActiveName(Append(cs, c)) = IF cs = <<>> THEN c.name ELSE ActiveName(cs)
<1> DEFINE ds == Append(cs, c)
<1>1. /\ cs \in Seq(Cluster) /\ ds \in Seq(Cluster) /\ ds # <<>>
      /\ DOMAIN cs = 1 .. Len(cs) /\ DOMAIN ds = 1 .. Len(cs) + 1 /\ Len(cs) \in Nat
      /\ \A i \in 1 .. Len(cs) : ds[i] = cs[i]
      /\ ds[Len(cs) + 1] = c
  BY AppendProperties DEF WellFormed
<1>2. WellFormed(ds)
  OBVIOUS
<1> HIDE DEF ds
<1>3. InUse(ds) = InUse(cs) \cup {c.name}
  BY <1>1 DEF InUse
<1>4. \A n \in InUse(cs) : EntriesOf(ds)[n] = EntriesOf(cs)[n]
  <2> SUFFICES ASSUME NEW i \in 1 .. Len(cs)
               PROVE  EntriesOf(ds)[cs[i].name] = EntriesOf(cs)[cs[i].name]
    BY <1>1 DEF InUse
  <2>1. EntriesOf(ds)[ds[i].name] = SettingsOf(ds[i]) /\ EntriesOf(cs)[cs[i].name] = SettingsOf(cs[i])
    BY <1>1, <1>2, EntriesAreSettings
  <2> QED BY <1>1, <2>1
<1>5. ActiveName(ds) = IF cs = <<>> THEN c.name ELSE ActiveName(cs)
  <2>1. CASE cs = <<>>
    BY <2>1, <1>1, <1>2, ActiveByMark
  <2>2. CASE cs # <<>> /\ \E i \in DOMAIN cs : cs[i].active
    BY <2>2, <1>1, <1>2, ActiveByMark
  <2>3. CASE cs # <<>> /\ \A i \in DOMAIN cs : ~cs[i].active
    <3>1. \A i \in DOMAIN ds : ~ds[i].active
      <4>1. ~c.active
        BY <2>3
      <4> QED BY <2>3, <4>1, <1>1
    <3>2. 1 \in 1 .. Len(cs)
      BY <2>3, <1>1
    <3> QED BY <2>3, <3>1, <3>2, <1>1, <1>2, ActiveByMark
  <2> QED BY <2>1, <2>2, <2>3
<1> QED BY <1>3, <1>4, <1>5 DEF ds

\* A cluster in the place of another.
PutAt(cs, k, c) == [cs EXCEPT ![k] = c]

\* Putting a cluster in the place of another replaces its entry.
LEMMA PutIsReplaced ==
  ASSUME NEW cs, WellFormed(cs), NEW k \in DOMAIN cs, NEW c \in Cluster,
         c.active = cs[k].active, NEW ds, ds = PutAt(cs, k, c), WellFormed(ds)
  PROVE  /\ c.name \notin InUse(cs) \ {cs[k].name}
         /\ InUse(ds) = (InUse(cs) \ {cs[k].name}) \cup {c.name}
         /\ \A n \in InUse(cs) \ {cs[k].name, c.name} :
              EntriesOf(ds)[n] = EntriesOf(cs)[n]
         /\ ActiveName(ds) = IF ActiveName(cs) = cs[k].name THEN c.name ELSE ActiveName(cs)
<1>1. /\ cs \in Seq(Cluster) /\ ds \in Seq(Cluster) /\ cs # <<>> /\ ds # <<>>
      /\ DOMAIN ds = DOMAIN cs
      /\ \A i \in DOMAIN cs : i # k => ds[i] = cs[i]
      /\ ds[k] = c
      /\ 1 \in DOMAIN cs
  BY DEF WellFormed, PutAt
<1>2. WellFormed(ds) /\ Distinct(cs) /\ Distinct(ds)
  BY DEF WellFormed
<1>3. \A i \in DOMAIN cs : i # k => cs[i].name # cs[k].name /\ cs[i].name # c.name
  BY <1>1, <1>2 DEF Distinct
<1>4. c.name \notin InUse(cs) \ {cs[k].name}
  BY <1>3 DEF InUse
<1>5. InUse(ds) = (InUse(cs) \ {cs[k].name}) \cup {c.name}
  BY <1>1, <1>3 DEF InUse
<1>6. \A n \in InUse(cs) \ {cs[k].name, c.name} : EntriesOf(ds)[n] = EntriesOf(cs)[n]
  <2> SUFFICES ASSUME NEW i \in DOMAIN cs, i # k
               PROVE  EntriesOf(ds)[cs[i].name] = EntriesOf(cs)[cs[i].name]
    BY DEF InUse
  <2>1. EntriesOf(ds)[ds[i].name] = SettingsOf(ds[i]) /\ EntriesOf(cs)[cs[i].name] = SettingsOf(cs[i])
    BY <1>1, <1>2, EntriesAreSettings
  <2> QED BY <1>1, <2>1
<1>7. ActiveName(ds) = IF ActiveName(cs) = cs[k].name THEN c.name ELSE ActiveName(cs)
  <2>1. CASE \E i \in DOMAIN cs : cs[i].active
    <3>1. PICK i \in DOMAIN cs : cs[i].active
      BY <2>1
    <3>2. ds[i].active /\ ActiveName(cs) = cs[i].name /\ ActiveName(ds) = ds[i].name
      BY <3>1, <1>1, <1>2, ActiveByMark
    <3> QED BY <3>2, <1>1, <1>3
  <2>2. CASE \A i \in DOMAIN cs : ~cs[i].active
    <3>1. \A i \in DOMAIN ds : ~ds[i].active
      BY <2>2, <1>1
    <3>2. ActiveName(cs) = cs[1].name /\ ActiveName(ds) = ds[1].name
      BY <2>2, <3>1, <1>1, <1>2, ActiveByMark
    <3> QED BY <3>2, <1>1, <1>3
  <2> QED BY <2>1, <2>2
<1> QED BY <1>4, <1>5, <1>6, <1>7

\* Switching leaves the settings as they are, and one name active.
LEMMA SwitchedIsActivated ==
  ASSUME NEW cs, WellFormed(cs), cs # <<>>, NEW n
  PROVE  /\ EntriesOf(Switched(cs, n)) = EntriesOf(cs)
         /\ ActiveName(Switched(cs, n)) \in InUse(cs)
         /\ n \in InUse(cs) => ActiveName(Switched(cs, n)) = n
<1> DEFINE ds == Switched(cs, n)
<1>1. WellFormed(ds)
  BY SwitchedWellFormed
<1>2. /\ DOMAIN ds = DOMAIN cs /\ ds # <<>> /\ 1 \in DOMAIN cs
      /\ \A i \in DOMAIN cs : /\ ds[i].name = cs[i].name
                              /\ ds[i].active = (cs[i].name = n)
                              /\ SettingsOf(ds[i]) = SettingsOf(cs[i])
  <2>1. \A i \in DOMAIN cs : cs[i] \in Cluster
    BY DEF WellFormed
  <2>3. DOMAIN ds = DOMAIN cs /\ \A i \in DOMAIN cs : ds[i] = [cs[i] EXCEPT !.active = (cs[i].name = n)]
    BY DEF Switched
  <2>4. ds # <<>> /\ 1 \in DOMAIN cs
    BY <2>3 DEF WellFormed
  <2> HIDE DEF ds
  <2>5. ASSUME NEW i \in DOMAIN cs
        PROVE  /\ ds[i].name = cs[i].name
               /\ ds[i].active = (cs[i].name = n)
               /\ ds[i].details = cs[i].details
               /\ ds[i].connect = cs[i].connect
    <3> DEFINE b == cs[i].name = n
               c == cs[i]
    <3>1. c \in Cluster /\ ds[i] = [c EXCEPT !.active = b]
      BY <2>1, <2>3
    <3> HIDE DEF b, c
    <3>2. /\ [c EXCEPT !.active = b].name = c.name
          /\ [c EXCEPT !.active = b].active = b
          /\ [c EXCEPT !.active = b].details = c.details
          /\ [c EXCEPT !.active = b].connect = c.connect
      BY <3>1, Zenon DEF Cluster
    <3>3. /\ ds[i].name = c.name /\ ds[i].active = b
          /\ ds[i].details = c.details /\ ds[i].connect = c.connect
      BY <3>1, <3>2, Zenon
    <3> QED BY <3>3 DEF b, c
  <2> QED BY <2>3, <2>4, <2>5 DEF SettingsOf
<1> HIDE DEF ds
<1>3. InUse(ds) = InUse(cs)
  BY <1>2 DEF InUse
<1>4. EntriesOf(ds) = EntriesOf(cs)
  BY <1>1, <1>2, <1>3, EntriesOnly, EntriesAreSettings
<1>5. ActiveName(ds) \in InUse(cs)
  BY <1>1, <1>2, <1>3, ActiveByMark
<1>6. n \in InUse(cs) => ActiveName(ds) = n
  <2> SUFFICES ASSUME NEW i \in DOMAIN cs, cs[i].name = n PROVE ActiveName(ds) = n
    BY DEF InUse
  <2>1. i \in DOMAIN ds /\ ds[i].active /\ ds[i].name = n
    BY <1>2
  <2> QED BY <2>1, <1>1, ActiveByMark
<1> QED BY <1>4, <1>5, <1>6 DEF ds
-----------------------------------------------------------------------------

\* Taking a cluster out leaves the others; without the active one the first of
\* them becomes active.
LEMMA DeletedIsRemoved ==
  ASSUME NEW cs, WellFormed(cs), NEW n, n \in InUse(cs)
  PROVE  /\ InUse(Deleted(cs, n)) = InUse(cs) \ {n}
         /\ \A m \in InUse(cs) \ {n} : EntriesOf(Deleted(cs, n))[m] = EntriesOf(cs)[m]
         /\ ActiveName(cs) # n => ActiveName(Deleted(cs, n)) = ActiveName(cs)
         /\ InUse(cs) = {n} => ActiveName(Deleted(cs, n)) = NoName
         /\ InUse(cs) # {n} => ActiveName(Deleted(cs, n)) \in InUse(cs) \ {n}
<1> DEFINE k    == FirstOf(Named(cs, n))
           rest == Without(cs, k)
           ds   == Deleted(cs, n)
           At(i) == IF i < k THEN i ELSE i + 1
<1>1. /\ cs \in Seq(Cluster) /\ Distinct(cs) /\ cs # <<>> /\ Len(cs) \in Nat
      /\ DOMAIN cs = 1 .. Len(cs) /\ Named(cs, n) # {}
  BY DEF WellFormed, InUse, Named
<1>2. k \in 1 .. Len(cs) /\ cs[k].name = n
  BY <1>1, FirstNamed
<1>3. /\ WellFormed(rest) /\ Len(rest) = Len(cs) - 1
      /\ cs[k].active => \A i \in 1 .. Len(cs) - 1 : ~ rest[i].active
  BY <1>2, WithoutWellFormed
<1>4. WellFormed(ds)
  BY DeletedWellFormed
<1>5. rest \in Seq(Cluster) /\ DOMAIN rest = 1 .. Len(cs) - 1
      /\ \A i \in 1 .. Len(cs) - 1 : rest[i] = cs[At(i)] /\ At(i) \in 1 .. Len(cs) /\ At(i) # k
  BY <1>1, <1>2, <1>3 DEF WellFormed, Without
<1>6. \A j \in 1 .. Len(cs) : j # k => \E i \in 1 .. Len(cs) - 1 : At(i) = j
  <2> SUFFICES ASSUME NEW j \in 1 .. Len(cs), j # k
               PROVE  \E i \in 1 .. Len(cs) - 1 : At(i) = j
    OBVIOUS
  <2>0. k \in Int /\ k \in 1 .. Len(cs) /\ Len(cs) \in Nat
    BY <1>1, <1>2
  <2> HIDE DEF k
  <2>1. CASE j < k
    <3>1. j \in 1 .. Len(cs) - 1 /\ At(j) = j
      BY <2>0, <2>1
    <3> QED BY <3>1
  <2>2. CASE j > k
    <3>1. j - 1 \in 1 .. Len(cs) - 1 /\ At(j - 1) = j
      BY <2>0, <2>2
    <3> QED BY <3>1
  <2> QED BY <2>0, <2>1, <2>2
<1>7. ds = IF cs[k].active /\ rest # <<>> THEN [rest EXCEPT ![1].active = TRUE] ELSE rest
  BY <1>1 DEF Deleted
<1> HIDE DEF k, rest, ds, At
<1>8. /\ ds \in Seq(Cluster) /\ DOMAIN ds = DOMAIN rest
      /\ \A i \in DOMAIN rest : ds[i].name = rest[i].name /\ SettingsOf(ds[i]) = SettingsOf(rest[i])
      /\ cs[k].active \/ \A i \in DOMAIN rest : ds[i].active = rest[i].active
  <2>1. CASE cs[k].active /\ rest # <<>>
    <3> DEFINE first == [rest[1] EXCEPT !.active = TRUE]
    <3>1. 1 \in DOMAIN rest /\ rest[1] \in Cluster
      BY <2>1, <1>5
    <3>2. first.name = rest[1].name /\ first.details = rest[1].details /\ first.connect = rest[1].connect
      <4>1. ASSUME NEW c \in Cluster
            PROVE  /\ [c EXCEPT !.active = TRUE].name = c.name
                   /\ [c EXCEPT !.active = TRUE].details = c.details
                   /\ [c EXCEPT !.active = TRUE].connect = c.connect
        BY Zenon DEF Cluster
      <4> QED BY <3>1, <4>1
    <3>3. ds = [rest EXCEPT ![1] = first]
      BY <2>1, <1>7, Zenon
    <3> HIDE DEF first
    <3>4. DOMAIN ds = DOMAIN rest /\ ds[1] = first /\ \A i \in DOMAIN rest : i # 1 => ds[i] = rest[i]
      BY <3>1, <3>3
    <3> QED BY <2>1, <3>2, <3>4, <1>4 DEF SettingsOf, WellFormed
  <2>2. CASE ~(cs[k].active /\ rest # <<>>)
    BY <2>2, <1>5, <1>7
  <2> QED BY <2>1, <2>2
<1>9. InUse(ds) = InUse(cs) \ {n}
  <2>1. InUse(rest) = {cs[j].name : j \in (1 .. Len(cs)) \ {k}}
    <3> DEFINE others == {cs[j].name : j \in (1 .. Len(cs)) \ {k}}
    <3>1. \A i \in 1 .. Len(cs) - 1 : rest[i].name \in others
      BY <1>5
    <3>2. \A j \in (1 .. Len(cs)) \ {k} : cs[j].name \in {rest[i].name : i \in 1 .. Len(cs) - 1}
      BY <1>5, <1>6
    <3>3. InUse(rest) = {rest[i].name : i \in 1 .. Len(cs) - 1}
      BY <1>5 DEF InUse
    <3> QED BY <3>1, <3>2, <3>3
  <2>2. \A j \in 1 .. Len(cs) : cs[j].name = n => j = k
    BY <1>1, <1>2 DEF Distinct
  <2>3. InUse(ds) = InUse(rest)
    BY <1>8 DEF InUse
  <2>4. InUse(cs) = {cs[j].name : j \in 1 .. Len(cs)}
    BY <1>1 DEF InUse
  <2> QED BY <1>2, <2>1, <2>2, <2>3, <2>4
<1>10. \A m \in InUse(cs) \ {n} : EntriesOf(ds)[m] = EntriesOf(cs)[m]
  <2> SUFFICES ASSUME NEW i \in DOMAIN ds PROVE EntriesOf(ds)[ds[i].name] = EntriesOf(cs)[ds[i].name]
    BY <1>9 DEF InUse
  <2>1. EntriesOf(ds)[ds[i].name] = SettingsOf(ds[i])
    BY <1>4, EntriesAreSettings
  <2>2. ds[i].name = cs[At(i)].name /\ SettingsOf(ds[i]) = SettingsOf(cs[At(i)]) /\ At(i) \in DOMAIN cs
    BY <1>1, <1>5, <1>8 DEF SettingsOf
  <2>3. EntriesOf(cs)[cs[At(i)].name] = SettingsOf(cs[At(i)])
    BY <2>2, EntriesAreSettings
  <2> QED BY <2>1, <2>2, <2>3
<1>11. InUse(cs) = {n} => ActiveName(ds) = NoName
  <2>1. InUse(cs) = {n} => ds = <<>>
    BY <1>4, <1>9, EmptyIfUnnamed
  <2> QED BY <2>1, <1>4, ActiveByMark
<1>12. InUse(cs) # {n} => ActiveName(ds) \in InUse(cs) \ {n}
  <2>1. InUse(cs) # {n} => ds # <<>>
    <3>1. n \in InUse(cs)
      OBVIOUS
    <3> QED BY <3>1, <1>4, <1>9, EmptyIfUnnamed
  <2> QED BY <2>1, <1>4, <1>9, ActiveByMark
<1>13. ActiveName(cs) # n => ActiveName(ds) = ActiveName(cs)
  <2> SUFFICES ASSUME ActiveName(cs) # n PROVE ActiveName(ds) = ActiveName(cs)
    OBVIOUS
  <2>1. ~cs[k].active
    BY <1>1, <1>2, ActiveByMark
  <2>2. CASE \E j \in DOMAIN cs : cs[j].active
    <3>1. PICK j \in DOMAIN cs : cs[j].active
      BY <2>2
    <3>2. PICK i \in 1 .. Len(cs) - 1 : At(i) = j
      BY <1>1, <1>6, <2>1, <3>1
    <3>3. ds[i].active /\ ds[i].name = cs[j].name /\ i \in DOMAIN ds
      BY <1>5, <1>8, <2>1, <3>1, <3>2
    <3> QED BY <3>1, <3>3, <1>4, ActiveByMark
  <2>3. CASE \A j \in DOMAIN cs : ~cs[j].active
    <3>1. ActiveName(cs) = cs[1].name
      BY <2>3, <1>1, ActiveByMark
    <3>2. k # 1 /\ 1 \in 1 .. Len(cs)
      BY <1>1, <1>2, <3>1
    <3>3. 1 \in 1 .. Len(cs) - 1 /\ At(1) = 1
      BY <1>1, <1>2, <3>2 DEF At
    <3>4. \A i \in DOMAIN ds : ~ds[i].active
      BY <1>1, <1>5, <1>8, <2>1, <2>3
    <3>5. ds # <<>> /\ ds[1].name = cs[1].name
      BY <1>5, <1>8, <3>3
    <3> QED BY <3>1, <3>4, <3>5, <1>4, ActiveByMark
  <2> QED BY <2>2, <2>3
<1> QED BY <1>9, <1>10, <1>11, <1>12, <1>13 DEF ds
-----------------------------------------------------------------------------
(* The refinement                                                          *)

\* Registering a cluster adds it to the store, or replaces its entry.
LEMMA RegisterIsStoreStep ==
  ASSUME IInv, IInv', NEW r \in Registration, RegisterCluster(r)
  PROVE  Store!StoreNext
<1> DEFINE k   == FirstOf(Named(clusters, r.name))
           new == ToCluster(clusters, r)
           put == [new EXCEPT !.name = IF r.newName = NoName THEN @ ELSE r.newName]
<1>1. /\ WellFormed(clusters) /\ WellFormed(clusters') /\ clusters \in Seq(Cluster)
      /\ clusters' = Registered(clusters, r) /\ file' = file
  BY DEF IInv, RegisterCluster, Flush, WellFormed
<1>2. new \in Cluster
  BY <1>1, RegisteredWellFormed DEF RegisterCluster, Validated
<1>3. r.name \in Names /\ r.newName \in Names \cup {NoName}
  BY DEF Registration
<1>4. CASE Named(clusters, r.name) = {}
  <2>1. new.name = r.name /\ new.active = (clusters = <<>>) /\ r.name \notin InUse(clusters)
    BY <1>4 DEF ToCluster, Named, InUse
  <2>2. clusters' = Append(clusters, new)
    BY <1>1, <1>4 DEF Registered
  <2> HIDE DEF new
  <2>3. /\ InUse(clusters') = InUse(clusters) \cup {r.name}
        /\ \A n \in InUse(clusters) : EntriesOf(clusters')[n] = EntriesOf(clusters)[n]
        /\ ActiveName(clusters') = IF clusters = <<>> THEN r.name ELSE ActiveName(clusters)
    BY <1>1, <1>2, <2>1, <2>2, AppendedIsAdded
  <2>4. Store!Put(InUse(clusters), r.name)
    BY <1>1, <2>3, EntriesAreSettings DEF Store!Put, Settings
  <2>5. DOMAIN EntriesOf(clusters) = InUse(clusters) /\ (InUse(clusters) = {} <=> clusters = <<>>)
    BY <1>1, EntriesAreSettings, EmptyIfUnnamed
  <2>6. Store!Add(r.name)
    BY <1>1, <2>1, <2>3, <2>4, <2>5 DEF Store!Add
  <2> QED BY <1>3, <2>6 DEF Store!StoreNext
<1>5. CASE Named(clusters, r.name) # {}
  <2>1. k \in DOMAIN clusters /\ clusters[k].name = r.name
    BY <1>1, <1>5, FirstNamed
  <2>2. new.name = r.name /\ new.active = clusters[k].active
    BY <1>5 DEF ToCluster
  <2>3. clusters' = PutAt(clusters, k, put)
    BY <1>1, <1>5 DEF Registered, PutAt
  <2> HIDE DEF new, k
  <2>4. put \in Cluster /\ put.active = clusters[k].active /\ put.name \in Names
    BY <1>2, <1>3, <2>2 DEF Cluster
  <2> HIDE DEF put
  <2>5. /\ put.name \notin InUse(clusters) \ {r.name}
        /\ InUse(clusters') = (InUse(clusters) \ {r.name}) \cup {put.name}
        /\ \A n \in InUse(clusters) \ {r.name, put.name} :
             EntriesOf(clusters')[n] = EntriesOf(clusters)[n]
        /\ ActiveName(clusters') = IF ActiveName(clusters) = r.name THEN put.name
                                   ELSE ActiveName(clusters)
    BY <1>1, <2>1, <2>3, <2>4, PutIsReplaced
  <2>6. DOMAIN EntriesOf(clusters) = InUse(clusters) /\ r.name \in InUse(clusters)
    BY <1>1, <2>1, EntriesAreSettings DEF InUse
  <2>7. Store!Put(InUse(clusters) \ {r.name}, put.name)
    BY <1>1, <2>5, EntriesAreSettings DEF Store!Put, Settings
  <2>8. Store!Replace(r.name, put.name)
    BY <1>1, <2>5, <2>6, <2>7 DEF Store!Replace
  <2> QED BY <1>3, <2>4, <2>8 DEF Store!StoreNext
<1> QED BY <1>4, <1>5

\* Switching the cluster changes which entry of the store is active.
LEMMA SwitchIsStoreStep ==
  ASSUME IInv, NEW n \in Names, SwitchCluster(n) PROVE Store!StoreNext
<1>1. /\ WellFormed(clusters) /\ clusters # <<>>
      /\ clusters' = Switched(clusters, n) /\ file' = file
  BY DEF IInv, SwitchCluster, Flush
<1>2. /\ EntriesOf(clusters') = EntriesOf(clusters)
      /\ ActiveName(clusters') \in InUse(clusters)
      /\ n \in InUse(clusters) => ActiveName(clusters') = n
  BY <1>1, SwitchedIsActivated
<1>3. DOMAIN EntriesOf(clusters) = InUse(clusters)
  BY <1>1, EntriesAreSettings
<1>4. Store!Activate(n)
  BY <1>1, <1>2, <1>3 DEF Store!Activate
<1> QED BY <1>4 DEF Store!StoreNext

\* Deleting a cluster removes its entry from the store.
LEMMA DeleteIsStoreStep ==
  ASSUME IInv, IInv', NEW n \in Names, DeleteCluster(n) PROVE Store!StoreNext
<1>1. /\ WellFormed(clusters) /\ WellFormed(clusters') /\ n \in InUse(clusters)
      /\ clusters' = Deleted(clusters, n) /\ file' = file
  BY DEF IInv, DeleteCluster, Flush, Named, InUse
<1>2. /\ InUse(clusters') = InUse(clusters) \ {n}
      /\ \A m \in InUse(clusters) \ {n} : EntriesOf(clusters')[m] = EntriesOf(clusters)[m]
      /\ ActiveName(clusters) # n => ActiveName(clusters') = ActiveName(clusters)
      /\ InUse(clusters) = {n} => ActiveName(clusters') = NoName
      /\ InUse(clusters) # {n} => ActiveName(clusters') \in InUse(clusters) \ {n}
  BY <1>1, DeletedIsRemoved
<1>3. /\ DOMAIN EntriesOf(clusters) = InUse(clusters)
      /\ EntriesOf(clusters') \in [InUse(clusters') -> Settings]
  BY <1>1, EntriesAreSettings
<1>4. EntriesOf(clusters') = [m \in InUse(clusters) \ {n} |-> EntriesOf(clusters)[m]]
  BY <1>2, <1>3
<1>5. InUse(clusters) \ {n} = {} <=> InUse(clusters) = {n}
  BY <1>1
<1>6. Store!Remove(n)
  BY <1>1, <1>2, <1>3, <1>4, <1>5 DEF Store!Remove
<1> QED BY <1>6 DEF Store!StoreNext

\* Deleting a Connect cluster replaces the entry of the cluster that had it.
LEMMA ConnectDeletionIsStoreStep ==
  ASSUME IInv, IInv', NEW n \in Names, NEW c \in Connects, DeleteKafkaConnectCluster(n, c)
  PROVE  Store!StoreNext
<1> DEFINE Holding == {i \in Named(clusters, n) : c \in clusters[i].connect}
           k == FirstOf(Holding)
           new == [clusters[k] EXCEPT !.connect = @ \ {c}]
<1>1. /\ WellFormed(clusters) /\ WellFormed(clusters') /\ file' = file
      /\ clusters' = ConnectDeleted(clusters, n, c) /\ clusters' # clusters
  BY DEF IInv, DeleteKafkaConnectCluster, Flush
<1>2. Holding # {}
  BY <1>1 DEF ConnectDeleted
<1>3. k \in Holding
  <2>1. Holding \subseteq DOMAIN clusters
    BY DEF Named
  <2>2. DOMAIN clusters \subseteq Nat
    BY <1>1 DEF WellFormed
  <2> HIDE DEF Holding
  <2> QED BY <1>2, <2>1, <2>2, FirstIsMember
<1>4. k \in DOMAIN clusters /\ clusters[k].name = n /\ clusters[k] \in Cluster
  <2>1. k \in Named(clusters, n) /\ clusters \in Seq(Cluster)
    BY <1>1, <1>3 DEF WellFormed
  <2> HIDE DEF k
  <2> QED BY <2>1 DEF Named
<1>5. clusters' = PutAt(clusters, k, new)
  BY <1>1, <1>2 DEF ConnectDeleted, PutAt
<1> HIDE DEF k
<1>6. new \in Cluster /\ new.name = n /\ new.active = clusters[k].active
  <2>1. clusters[k].connect \ {c} \in SUBSET Connects
    BY <1>4 DEF Cluster
  <2> QED BY <1>4, <2>1, SetConnect
<1> HIDE DEF new
<1>7. /\ InUse(clusters') = (InUse(clusters) \ {n}) \cup {n}
      /\ \A m \in InUse(clusters) \ {n} : EntriesOf(clusters')[m] = EntriesOf(clusters)[m]
      /\ ActiveName(clusters') = ActiveName(clusters)
  <2>1. /\ InUse(clusters') = (InUse(clusters) \ {clusters[k].name}) \cup {new.name}
        /\ \A m \in InUse(clusters) \ {clusters[k].name, new.name} :
             EntriesOf(clusters')[m] = EntriesOf(clusters)[m]
        /\ ActiveName(clusters') = IF ActiveName(clusters) = clusters[k].name THEN new.name
                                   ELSE ActiveName(clusters)
    BY <1>1, <1>4, <1>5, <1>6, PutIsReplaced
  <2> QED BY <1>4, <1>6, <2>1
<1>8. DOMAIN EntriesOf(clusters) = InUse(clusters) /\ n \in InUse(clusters)
  BY <1>1, <1>4, EntriesAreSettings DEF InUse
<1>9. Store!Put(InUse(clusters) \ {n}, n)
  BY <1>1, <1>7, EntriesAreSettings DEF Store!Put, Settings
<1>10. Store!Replace(n, n)
  BY <1>1, <1>7, <1>8, <1>9 DEF Store!Replace
<1> QED BY <1>10 DEF Store!StoreNext

\* What the file held at the start is a content of the store.
LEMMA InitIsStoreInit == Init => Store!StoreInit
<1> SUFFICES ASSUME Init PROVE Store!StoreInit
  OBVIOUS
<1>1. WellFormed(clusters) /\ clusters = file
  BY InitIInv DEF Init, IInv
<1>2. /\ InUse(clusters) \subseteq Names /\ EntriesOf(clusters) \in [InUse(clusters) -> Settings]
      /\ DOMAIN EntriesOf(clusters) = InUse(clusters)
  BY <1>1, EntriesAreSettings
<1>3. ActiveName(clusters) \in IF InUse(clusters) = {} THEN {NoName} ELSE InUse(clusters)
  <2>1. InUse(clusters) = {} <=> clusters = <<>>
    BY <1>1, EmptyIfUnnamed
  <2> QED BY <1>1, <2>1, ActiveByMark
<1> QED BY <1>1, <1>2, <1>3 DEF Store!StoreInit, Store!Current, ContentOf, Settings

\* A step of the configuration is a step of the store, or none at all.
LEMMA StepIsStoreStep == IInv /\ [Next]_vars => [Store!StoreNext]_(Store!storeVars)
<1> SUFFICES ASSUME IInv, [Next]_vars PROVE [Store!StoreNext]_(Store!storeVars)
  OBVIOUS
<1>1. IInv'
  BY NextIInv
<1>2. CASE \E r \in Registration : RegisterCluster(r)
  BY <1>1, <1>2, RegisterIsStoreStep
<1>3. CASE \E n \in Names : SwitchCluster(n)
  BY <1>3, SwitchIsStoreStep
<1>4. CASE \E n \in Names : DeleteCluster(n)
  BY <1>1, <1>4, DeleteIsStoreStep
<1>5. CASE \E n \in Names : \E k \in Connects : DeleteKafkaConnectCluster(n, k)
  BY <1>1, <1>5, ConnectDeletionIsStoreStep
<1>6. CASE Truncate
  <2>1. ContentOf(<<>>) = Store!Nothing
    <3>1. InUse(<<>>) = {}
      BY DEF InUse
    <3>2. EntriesOf(<<>>) = [n \in {} |-> NoName]
      BY <3>1 DEF EntriesOf
    <3>3. ActiveName(<<>>) = NoName
      BY EmptyWellFormed, ActiveByMark
    <3> QED BY <3>2, <3>3 DEF ContentOf, Store!Nothing
  <2>2. Store!Erase
    BY <1>6, <2>1 DEF Truncate, Store!Erase
  <2> QED BY <2>2 DEF Store!StoreNext
<1>7. CASE Write
  BY <1>7 DEF Write, Store!StoreNext, Store!Save, Store!Current, ContentOf
<1>8. CASE Stop
  BY <1>8 DEF Stop, Store!storeVars
<1>9. CASE Start
  BY <1>9 DEF Start, Store!StoreNext, Store!Restart, Store!Current, ContentOf
<1>10. CASE UNCHANGED vars
  BY <1>10 DEF vars, Store!storeVars
<1> QED
  BY <1>2, <1>3, <1>4, <1>5, <1>6, <1>7, <1>8, <1>9, <1>10 DEF Next

\* The configuration implements the store: an operation of config.go touches
\* its own cluster only, the active cluster changes only by a switch or its own
\* removal, and a restart finds what was last written, or nothing.
THEOREM ConfigImplementsStore == Spec => StoreSpec
<1>1. Spec => []IInv
  BY InitIInv, NextIInv, PTL DEF Spec
<1> QED
  BY <1>1, InitIsStoreInit, StepIsStoreStep, PTL DEF Spec, StoreSpec, Store!StoreSpec
=============================================================================
