---------------------------- MODULE ClusterConfig ---------------------------
(***************************************************************************)
(* The configured clusters (config/config.go) and the file they are kept   *)
(* in (config/file.go). The pages call one operation at a time, each in a  *)
(* command of its own; every operation changes the list in memory and then *)
(* rewrites the file in place, and the program may stop at any instant.    *)
(***************************************************************************)
EXTENDS ClusterList

CONSTANTS
  Names,     \* names a cluster may be given
  Details,   \* what the cluster form asks for besides the name
  Connects,  \* names of Kafka Connect clusters
  Requested, \* the sets of Connect clusters a registration may bring
  Files      \* the contents the file may have at the first start

VARIABLES
  clusters,  \* Config.Clusters
  file,      \* the content of the configuration file
  phase,     \* idle, or the step of the write that follows, or stopped
  answer     \* the cluster the last operation returned

vars == <<clusters, file, phase, answer>>

Cluster == [name : Names, active : BOOLEAN, details : Details,
            connect : SUBSET Connects]

ASSUME NamesAssumption == NoName \notin Names
ASSUME RequestedAssumption == Requested \subseteq SUBSET Connects

Registration == [name : Names, newName : Names \cup {NoName},
                 details : Details, connect : Requested]

\* DeleteKafkaConnectCluster
ConnectDeleted(cs, n, k) ==
  LET Holding == {i \in Named(cs, n) : k \in cs[i].connect}
  IN IF Holding = {} THEN cs
     ELSE [cs EXCEPT ![FirstOf(Holding)].connect = @ \ {k}]

-----------------------------------------------------------------------------
(* The program                                                             *)

\* A file written by hand is taken to name its clusters apart.
ASSUME FilesAssumption ==
         \A f \in Files : f \in Seq(Cluster) /\ Distinct(f) /\ OneActive(f)

Init ==
  /\ file \in Files
  /\ clusters = file
  /\ phase = "idle"
  /\ answer = NoCluster

\* Every operation ends with flush.
Flush == phase' = "truncate" /\ UNCHANGED file

\* The form lets through a name that is free, or the cluster's own.
Validated(r) ==
  /\ r.newName # NoName => /\ r.name \in InUse(clusters)
                           /\ r.newName \notin InUse(clusters)

RegisterCluster(r) ==
  /\ phase = "idle"
  /\ Validated(r)
  /\ clusters' = Registered(clusters, r)
  /\ answer' = ToCluster(clusters, r)
  /\ Flush

SwitchCluster(n) ==
  /\ phase = "idle" /\ clusters # <<>>
  /\ clusters' = Switched(clusters, n)
  /\ answer' = Found(clusters', n)
  /\ Flush

DeleteCluster(n) ==
  /\ phase = "idle"
  /\ Named(clusters, n) # {}
  /\ clusters' = Deleted(clusters, n)
  /\ answer' = NoCluster
  /\ Flush

DeleteKafkaConnectCluster(n, k) ==
  /\ phase = "idle"
  /\ ConnectDeleted(clusters, n, k) # clusters
  /\ clusters' = ConnectDeleted(clusters, n, k)
  /\ answer' = NoCluster
  /\ Flush

\* os.WriteFile opens the file with O_TRUNC and writes the marshalled list.
Truncate ==
  /\ phase = "truncate"
  /\ file' = <<>>
  /\ phase' = "write"
  /\ UNCHANGED <<clusters, answer>>

Write ==
  /\ phase = "write"
  /\ file' = clusters
  /\ phase' = "idle"
  /\ UNCHANGED <<clusters, answer>>

\* The program is quit or killed, or ends because the write failed.
Stop ==
  /\ phase # "stopped"
  /\ phase' = "stopped"
  /\ UNCHANGED <<clusters, file, answer>>

\* config.New reads what the file holds; an empty file is an empty list.
Start ==
  /\ phase = "stopped"
  /\ clusters' = file
  /\ answer' = NoCluster
  /\ phase' = "idle"
  /\ UNCHANGED file

Next ==
  \/ \E r \in Registration : RegisterCluster(r)
  \/ \E n \in Names : \/ SwitchCluster(n)
                      \/ DeleteCluster(n)
                      \/ \E k \in Connects : DeleteKafkaConnectCluster(n, k)
  \/ Truncate \/ Write \/ Stop \/ Start

Spec == Init /\ [][Next]_vars

-----------------------------------------------------------------------------
(* Properties                                                              *)

TypeOK ==
  /\ clusters \in Seq(Cluster)
  /\ file \in Seq(Cluster)
  /\ phase \in {"idle", "truncate", "write", "stopped"}
  /\ answer \in Cluster \cup {NoCluster}

\* No sequence of operations, stops and restarts gives two clusters one name:
\* every operation finds its cluster by name (config.go).
NamesUnique == Distinct(clusters)

\* At most one cluster is marked active, in memory and in the file.
AtMostOneActive == OneActive(clusters) /\ OneActive(file)

\* Between two operations the file holds what the program shows, so that a
\* restart then loses nothing.
FileCurrent == phase = "idle" => file = clusters

\* The configuration implements the store: an operation touches its own
\* cluster only, the active cluster changes only by a switch or its own
\* removal, and a restart finds the last content or, after a stop during the
\* write, nothing.
SettingsOf(c)  == [details |-> c.details, connect |-> c.connect]
EntriesOf(cs)  == [n \in InUse(cs) |-> SettingsOf(Found(cs, n))]
ActiveName(cs) == ActiveCluster(cs).name
ContentOf(cs)  == [entries |-> EntriesOf(cs), active |-> ActiveName(cs)]

Store == INSTANCE ClusterStore
           WITH Settings <- [details : Details, connect : SUBSET Connects],
                entries  <- EntriesOf(clusters),
                active   <- ActiveName(clusters),
                saved    <- ContentOf(file)
StoreSpec == Store!StoreSpec
=============================================================================
