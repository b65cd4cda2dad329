---------------------------- MODULE TableClasses ----------------------------
(***************************************************************************)
(* The hash table (HashTable) and the class that reads settings into one     *)
(* (ConfigReader), which sees of it only the dictionary that HashTable is    *)
(* shown to implement: each has its own state here.                         *)
(***************************************************************************)
EXTENDS HashTable, ConfigReader

CONSTANT BothClasses   \* a bound: a behaviour may use both

VARIABLE uses          \* the classes that the program uses in this behaviour

classVars == <<vars, configVars, uses>>

ClassTypeOK ==
  /\ TypeOK
  /\ uses \subseteq {"HashTable", "ConfigReader"}

ClassInit ==
  /\ Init /\ ConfigInit
  /\ uses \in {{"HashTable"}, {"ConfigReader"}} \cup
       IF BothClasses THEN {{"HashTable", "ConfigReader"}} ELSE {}

ClassNext ==
  /\ \/ "HashTable" \in uses /\ Next /\ UNCHANGED configVars
     \/ "ConfigReader" \in uses /\ ConfigNext /\ UNCHANGED vars
  /\ UNCHANGED uses

\* An operation that runs goes on, and so does a call that reads.
ClassSpec ==
  ClassInit /\ [][ClassNext]_classVars /\ WF_vars(Move \/ Moved) /\ WF_configVars(ReadLine)
=============================================================================
