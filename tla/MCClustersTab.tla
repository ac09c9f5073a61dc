--------------------------- MODULE MCClustersTab ----------------------------
(***************************************************************************)
(* Instances of ClustersTab for TLC: users who do different things, each   *)
(* with a configuration to do them on.                                     *)
(***************************************************************************)
EXTENDS ClustersTab

CONSTANTS prd, tst, uat, k1, k2, term

MCItems == {prd, tst, uat, EmptyName}
MCOrder == <<EmptyName, prd, tst, uat>>
\* The term is in the name of one cluster only.
MCMatches(n, t) == t = EmptyTerm \/ n = tst

Plain == [tls |-> "off", sasl |-> FALSE, registry |-> "none"]
Sasl  == [Plain EXCEPT !.sasl = TRUE]
Secure == [tls |-> "verify", sasl |-> FALSE, registry |-> "verify"]
Known(n, marked, details, connect) ==
  [name |-> n, active |-> marked, details |-> details, connect |-> connect]

Pressed(ks) == {Input(k) : k \in ks}
Edit(field, value) == [type |-> "edit", field |-> field, value |-> value]
Resize == Message("other")

\* Two clusters to switch between, leaving the tab and coming back.
Switcher ==
  [clusters |-> <<Known(prd, TRUE, Plain, <<>>), Known(tst, FALSE, Sasl, <<>>)>>,
   inputs   |-> Pressed({"enter", "up", "down", "ctrl+left", "ctrl+right"}),
   checks   |-> 2, changes |-> 1, len      |-> 3]

\* Deletes clusters, and may confirm once more.
Deleter ==
  [clusters |-> <<Known(prd, TRUE, Plain, <<>>), Known(tst, FALSE, Sasl, <<>>)>>,
   inputs   |-> Pressed({"down", "f2", "accept", "enter", "esc", "ctrl+left"}),
   checks   |-> 1, changes |-> 1, len |-> 3]

\* Deletes a cluster while it becomes the active one.
Rusher ==
  [clusters |-> <<Known(prd, FALSE, Plain, <<>>), Known(tst, TRUE, Sasl, <<>>)>>,
   inputs   |-> Pressed({"f2", "accept", "enter"}),
   checks   |-> 1, changes |-> 2, len |-> 3]

\* Opens the form of a cluster while checks are under way.
Opener ==
  [clusters |-> <<Known(prd, TRUE, Plain, <<>>), Known(tst, FALSE, Sasl, <<>>)>>,
   inputs   |-> Pressed({"enter", "down", "ctrl+e", "esc"}),
   checks   |-> 1, changes |-> 1, len      |-> 3]

\* Chooses how a cluster and its registry are reached, back and forth.
Chooser ==
  [clusters |-> <<Known(prd, TRUE, Secure, <<>>)>>,
   inputs   |-> Pressed({"ctrl+right", "ctrl+e", "f4", "f5"})
                  \cup {Edit("tls", "plain"), Edit("tls", "tls"),
                        Edit("ver", "broker"), Edit("ver", "skip"),
                        Edit("sasl", TRUE), Edit("sasl", FALSE),
                        Edit("srTls", "plain"), Edit("srTls", "tls"),
                        Edit("srVer", "broker"), Edit("srVer", "skip")},
   checks   |-> 1, changes |-> 1, len      |-> 3]

\* Starts with no cluster, enters one and its registry, and thinks better.
Creator ==
  [clusters |-> <<>>,
   inputs   |-> Pressed({"enter", "ctrl+r", "f4", "f5"})
                  \cup {Edit("name", prd), Edit("tls", "plain"),
                        Edit("url", TRUE), Edit("srTls", "plain"), Resize},
   checks   |-> 1, changes |-> 1, len      |-> 3]

\* Renames a cluster.
Renamer ==
  [clusters |-> <<Known(prd, TRUE, Plain, <<>>), Known(tst, FALSE, Plain, <<>>)>>,
   inputs   |-> Pressed({"ctrl+right", "ctrl+e", "enter"})
                  \cup {Edit("name", tst), Edit("name", uat)},
   checks   |-> 1, changes |-> 1, len      |-> 3]

\* Registers Connect clusters and edits them.
Connecter ==
  [clusters |-> <<Known(prd, TRUE, Plain, <<k1>>)>>,
   inputs   |-> Pressed({"ctrl+right", "ctrl+e", "enter", "f6"})
                  \cup {[type |-> "kcname", name |-> k2]},
   checks   |-> 1, changes |-> 1, len      |-> 2]

\* Registers Connect clusters and deletes them.
Remover ==
  [clusters |-> <<Known(prd, TRUE, Plain, <<>>)>>,
   inputs   |-> Pressed({"ctrl+e", "enter", "f6", "f2", "accept"})
                  \cup {[type |-> "kcname", name |-> k1]},
   checks   |-> 1, changes |-> 1, len      |-> 2]

\* Looks for a cluster, and deletes or checks it.
Searcher ==
  [clusters |-> <<Known(prd, TRUE, Plain, <<>>), Known(tst, FALSE, Sasl, <<>>)>>,
   inputs   |-> Pressed({"/", "enter", "f2", "accept"}) \cup {Key("text", term)},
   checks   |-> 1, changes |-> 1, len |-> 3]

\* Registers Connect clusters of a cluster that is not the active one, and
\* leaves the tab and comes back.
Wanderer ==
  [clusters |-> <<Known(prd, FALSE, Plain, <<k1>>), Known(tst, TRUE, Plain, <<>>)>>,
   inputs   |-> Pressed({"ctrl+right", "ctrl+left", "ctrl+e", "enter", "f6"})
                  \cup {[type |-> "kcname", name |-> k2]},
   checks   |-> 1, changes |-> 1, len |-> 2]

\* Renames a cluster and goes on to its registry.
NameTaker ==
  [clusters |-> <<Known(prd, TRUE, Secure, <<>>), Known(tst, FALSE, Plain, <<>>)>>,
   inputs   |-> Pressed({"ctrl+e", "enter", "f5"}) \cup {Edit("name", tst)},
   checks   |-> 1, changes |-> 1, len      |-> 3]

MCSessions == {Switcher, Deleter, Rusher, Opener, Chooser, Creator, Renamer,
               Connecter, Remover, Searcher, Wanderer}
MCNameTakers == {NameTaker}

\* No two clusters have one name: upsert_cluster_page.go demands that it is
\* unique, on the form of the cluster.
NamesUnique == Distinct(clusters)
=============================================================================
