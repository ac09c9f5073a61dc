------------------------- MODULE ListingParameters --------------------------
(***************************************************************************)
(* What the fan-out listings are parameterised by.                         *)
(***************************************************************************)
EXTENDS Integers, FiniteSets

CONSTANTS Topics,     \* the names a cluster may hold
          Partitions, \* the topic partitions a group may have committed
          Subjects,   \* the names a schema registry may hold
          Nobody,     \* the holder of a free mutex
          ErrorValue, \* math.MinInt64: no offset of a partition
          MaxEnd      \* bound on what producers append to a partition

ASSUME NobodyAssumption == Nobody \notin Topics \union Partitions
ASSUME ErrorValueAssumption == ErrorValue \in Int /\ ErrorValue < 0
ASSUME SubjectsAssumption == IsFiniteSet(Subjects)
ASSUME MaxEndAssumption == MaxEnd \in Nat
=============================================================================
