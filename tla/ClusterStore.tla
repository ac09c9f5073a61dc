---------------------------- MODULE ClusterStore ----------------------------
(***************************************************************************)
(* What the cluster configuration promises to the pages that use it: a map *)
(* from names to cluster settings with one active cluster, of which a copy *)
(* survives the program. ClusterConfig implements it.                      *)
(***************************************************************************)
CONSTANTS
  Names,    \* names of clusters
  Settings, \* everything else that is kept of a cluster
  NoName    \* the active cluster when there is none

VARIABLES
  entries,  \* the settings of every cluster by its name
  active,   \* the cluster the program works with
  saved     \* what a restart finds

storeVars == <<entries, active, saved>>

Current == [entries |-> entries, active |-> active]
Nothing == [entries |-> [n \in {} |-> NoName], active |-> NoName]

StoreInit ==
  /\ DOMAIN entries \subseteq Names
  /\ entries \in [DOMAIN entries -> Settings]
  /\ active \in IF DOMAIN entries = {} THEN {NoName} ELSE DOMAIN entries
  /\ saved = Current

\* Of the other clusters nothing changes.
Put(rest, n) ==
  /\ entries' \in [rest \cup {n} -> Settings]
  /\ \A k \in rest \ {n} : entries'[k] = entries[k]

\* The first cluster becomes the active one.
Add(n) ==
  /\ n \notin DOMAIN entries
  /\ Put(DOMAIN entries, n)
  /\ active' = IF DOMAIN entries = {} THEN n ELSE active
  /\ UNCHANGED saved

\* An update, under the same name or a free one, keeps the active cluster.
Replace(n, new) ==
  /\ n \in DOMAIN entries
  /\ new \notin DOMAIN entries \ {n}
  /\ Put(DOMAIN entries \ {n}, new)
  /\ active' = IF active = n THEN new ELSE active
  /\ UNCHANGED saved

\* Activating an unknown cluster may leave any cluster active.
Activate(n) ==
  /\ DOMAIN entries # {}
  /\ active' \in DOMAIN entries
  /\ n \in DOMAIN entries => active' = n
  /\ UNCHANGED <<entries, saved>>

\* Removing the active cluster activates another one.
Remove(n) ==
  /\ n \in DOMAIN entries
  /\ LET rest == DOMAIN entries \ {n}
     IN /\ entries' = [k \in rest |-> entries[k]]
        /\ active' \in IF active # n THEN {active}
                       ELSE IF rest = {} THEN {NoName} ELSE rest
  /\ UNCHANGED saved

\* Saving replaces the copy by the current content, with an instant in
\* between in which there is no copy.
Erase   == saved' = Nothing /\ UNCHANGED <<entries, active>>
Save    == saved' = Current /\ UNCHANGED <<entries, active>>
Restart == Current' = saved /\ UNCHANGED saved

StoreNext ==
  \/ \E n \in Names : \/ Add(n)
                      \/ \E new \in Names : Replace(n, new)
                      \/ Activate(n)
                      \/ Remove(n)
  \/ Erase \/ Save \/ Restart

StoreSpec == StoreInit /\ [][StoreNext]_storeVars
=============================================================================
