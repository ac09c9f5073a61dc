----------------------------- MODULE ClusterList ----------------------------
(***************************************************************************)
(* The list of configured clusters, Config.Clusters, and what the methods  *)
(* of Config (config/config.go) make of it.  A cluster is a record with    *)
(* its name, its active mark, its details and its Connect clusters; what   *)
(* the last two are is left to the modules that extend this one.           *)
(***************************************************************************)
EXTENDS Integers, Sequences

CONSTANT NoName \* no name: the field NewName of a registration is nil

\* The nil of FindClusterByName.
NoCluster == [name |-> NoName]

Named(cs, n)  == {i \in DOMAIN cs : cs[i].name = n}
InUse(cs)     == {cs[i].name : i \in DOMAIN cs}
Active(cs)    == {i \in DOMAIN cs : cs[i].active}
FirstOf(I)    == CHOOSE i \in I : \A j \in I : i <= j

\* Two clusters of one name, or two active ones, are told apart by nothing.
Distinct(cs)  == \A i, j \in DOMAIN cs : cs[i].name = cs[j].name => i = j
OneActive(cs) == \A i, j \in DOMAIN cs : cs[i].active /\ cs[j].active => i = j

\* FindClusterByName
Found(cs, n) == IF Named(cs, n) = {} THEN NoCluster
                ELSE cs[FirstOf(Named(cs, n))]

\* ActiveCluster: the first one when none is marked.
ActiveCluster(cs) == IF Active(cs) # {} THEN cs[FirstOf(Active(cs))]
                     ELSE IF cs # <<>> THEN cs[1] ELSE NoCluster

\* The cluster RegisterCluster builds and returns: it still has the name it
\* was known by.
ToCluster(cs, r) ==
  [name    |-> r.name,
   active  |-> IF Named(cs, r.name) = {} THEN cs = <<>>
               ELSE cs[FirstOf(Named(cs, r.name))].active,
   details |-> r.details,
   connect |-> r.connect]

\* A bug: the update forgets that the cluster was active.
RegisteredInactive(cs, r) ==
  IF Named(cs, r.name) = {} THEN Append(cs, ToCluster(cs, r))
  ELSE [cs EXCEPT ![FirstOf(Named(cs, r.name))] =
          [ToCluster(cs, r) EXCEPT
             !.active = FALSE,
             !.name = IF r.newName = NoName THEN @ ELSE r.newName]]

\* A bug: a renamed cluster is added beside the one it replaces.
RegisteredTwice(cs, r) ==
  LET renamed == [r EXCEPT !.name = IF r.newName = NoName THEN @ ELSE r.newName]
  IN Append(cs, ToCluster(cs, renamed))

Registered(cs, r) ==
  IF Named(cs, r.name) = {} THEN Append(cs, ToCluster(cs, r))
  ELSE [cs EXCEPT ![FirstOf(Named(cs, r.name))] =
          [ToCluster(cs, r) EXCEPT !.name =
             IF r.newName = NoName THEN @ ELSE r.newName]]

\* A bug: the others are not deactivated.
SwitchedBeside(cs, n) ==
  [i \in DOMAIN cs |-> [cs[i] EXCEPT !.active = @ \/ cs[i].name = n]]

\* SwitchCluster: an unknown name leaves none active.
Switched(cs, n) == [i \in DOMAIN cs |-> [cs[i] EXCEPT !.active = cs[i].name = n]]

Without(cs, k) == [i \in 1 .. Len(cs) - 1 |-> IF i < k THEN cs[i] ELSE cs[i + 1]]

\* DeleteCluster: deleting the active cluster activates the first of the rest.
Deleted(cs, n) ==
  IF Named(cs, n) = {} THEN cs
  ELSE LET k    == FirstOf(Named(cs, n))
           rest == Without(cs, k)
       IN IF cs[k].active /\ rest # <<>>
          THEN [rest EXCEPT ![1].active = TRUE] ELSE rest
=============================================================================
