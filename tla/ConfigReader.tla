---------------------------- MODULE ConfigReader ----------------------------
(***************************************************************************)
(* ConfigReader (src/src/ConfigReader.cpp): a table of settings, read line   *)
(* by line from a file that others may have written or removed since it was  *)
(* read last.  The hash table is the function that HashTable implements.  A   *)
(* line is what getline, Trim and >> make of it: nothing ("blank", comments  *)
(* too); white space that Trim leaves, like a tab between spaces ("mixed");   *)
(* or a key and a value.                                                     *)
(***************************************************************************)
EXTENDS Naturals, Sequences

CONSTANTS
  Files,           \* the names of files
  SettingKeys,
  SettingValues,   \* "" among them: a line with a key only
  MaxLines         \* a bound: the lines of a file

EmptyString == ""

Texts == {[kind |-> "blank"], [kind |-> "mixed"]} \cup
         [kind : {"setting"}, key : SettingKeys, value : SettingValues]

\* A line is cut when getline fails in it: it has MAX_LINE_SIZE characters, or the
\* file cannot be read on; its text is that of the characters before.  A directory
\* can be opened, and is one blank line that is cut.
Lines == [text : Texts, cut : BOOLEAN]
Contents == UNION {[1..n -> Lines] : n \in 0..MaxLines}
ASSUME ConfigAssumption == EmptyString \notin Files /\ MaxLines \in Nat

NoSettings == [k \in {} |-> EmptyString]

VARIABLES
  made,            \* the object exists
  config_file_m, config_table_m,
  pc,              \* "idle", "read", or "failed" once getline failed
  ifs,             \* the lines that are not read yet
  call,            \* the function that runs: "ConfigReader", "Load" or "Reload"
  content,         \* all the lines of the file it opened
  before, named    \* the table when it was called, and whether there was a name

object == <<made, config_file_m, config_table_m>>
reading == <<pc, ifs, call, content, before, named>>
configVars == <<object, reading>>

ConfigInit ==
  /\ made = FALSE /\ config_file_m = EmptyString /\ config_table_m = NoSettings
  /\ pc = "idle" /\ ifs = <<>> /\ call = "none" /\ content = <<>>
  /\ before = NoSettings /\ named = FALSE
-----------------------------------------------------------------------------
\* What of a call is over is forgotten.
NotReading ==
  /\ pc' = "idle" /\ ifs' = <<>> /\ call' = "none" /\ content' = <<>>
  /\ before' = NoSettings /\ named' = FALSE

PutSetting(table, k, v) == [x \in DOMAIN table \cup {k} |-> IF x = k THEN v ELSE table[x]]

\* The constructor without a file.
ConstructUnnamed ==
  /\ ~made /\ made' = TRUE
  /\ config_file_m' = EmptyString /\ config_table_m' = NoSettings
  /\ UNCHANGED reading

Destroy ==
  /\ made /\ pc = "idle" /\ made' = FALSE
  /\ config_file_m' = EmptyString /\ config_table_m' = NoSettings
  /\ UNCHANGED reading

\* std::ifstream ifs(f) finds the lines c, as others left them, or no file: then the
\* caller throws.
Opens(function, f) ==
  \/ \E c \in Contents :
       /\ f # EmptyString /\ pc' = "read" /\ ifs' = c /\ content' = c /\ call' = function
       /\ before' = config_table_m /\ named' = (config_file_m # EmptyString)
       /\ made' = TRUE
  \/ NotReading /\ made' = (made /\ function # "ConfigReader")

\* The constructor with a file, which sets the name and calls Load: it clears what
\* is empty.
ConstructFrom(f) ==
  /\ ~made
  /\ Opens("ConfigReader", f)
  /\ config_file_m' = (IF made' THEN f ELSE EmptyString) /\ config_table_m' = NoSettings

\* A variant with a bug, for the sensitivity checks: nothing is cleared.
BugLoad(f) ==
  /\ made /\ pc = "idle"
  /\ Opens("Load", f)
  /\ config_file_m' = f
  /\ UNCHANGED config_table_m

\* Load clears the table, if the object has a name, and takes the new name before it
\* opens the file.
Load(f) ==
  /\ made /\ pc = "idle"
  /\ Opens("Load", f)
  /\ config_table_m' = IF config_file_m # EmptyString THEN NoSettings ELSE config_table_m
  /\ config_file_m' = f

\* Without a name it throws, as when there is no such file; it clears nothing.
Reload ==
  /\ made /\ pc = "idle"
  /\ Opens("Reload", config_file_m)
  /\ UNCHANGED <<config_file_m, config_table_m>>
-----------------------------------------------------------------------------
\* A variant in which a line that is read is not left behind when it is blank.
BugBlankLine ==
  /\ pc = "read" /\ ifs # <<>> /\ Head(ifs).text.kind = "blank"
  /\ pc' = IF Head(ifs).cut THEN "failed" ELSE "read"
  /\ UNCHANGED <<object, ifs, call, content, before, named>>

\* A comment too.  After a line that was cut no line can be read any more.
BlankLine ==
  /\ pc = "read" /\ ifs # <<>> /\ Head(ifs).text.kind = "blank"
  /\ pc' = IF Head(ifs).cut THEN "failed" ELSE "read"
  /\ ifs' = Tail(ifs)
  /\ UNCHANGED <<object, call, content, before, named>>

\* Of two lines with one key the last counts.
SettingLine ==
  /\ pc = "read" /\ ifs # <<>> /\ Head(ifs).text.kind = "setting"
  /\ config_table_m' = PutSetting(config_table_m, Head(ifs).text.key, Head(ifs).text.value)
  /\ pc' = IF Head(ifs).cut THEN "failed" ELSE "read"
  /\ ifs' = Tail(ifs)
  /\ UNCHANGED <<made, config_file_m, call, content, before, named>>

\* The key is empty, and HashTable::Put throws; a constructor leaves no object.
MixedLine ==
  /\ pc = "read" /\ ifs # <<>> /\ Head(ifs).text.kind = "mixed"
  /\ IF call = "ConfigReader"
     THEN made' = FALSE /\ config_file_m' = EmptyString /\ config_table_m' = NoSettings
     ELSE UNCHANGED object
  /\ NotReading

\* With failbit or badbit set getline reads nothing, makes raw_line empty and sets
\* no eofbit, the only one that the loop tests.
ReadNothing == pc = "failed" /\ UNCHANGED configVars

Close ==
  /\ pc = "read" /\ ifs = <<>>
  /\ NotReading
  /\ UNCHANGED object
-----------------------------------------------------------------------------
\* Add, and an assignment to what operator[] returned for a key that is there.
Add(k, v) ==
  /\ made /\ pc = "idle"
  /\ config_table_m' = PutSetting(config_table_m, k, v)
  /\ UNCHANGED <<made, config_file_m, reading>>

ReadLine == BlankLine \/ SettingLine \/ MixedLine \/ Close

ConfigNext ==
  \/ ConstructUnnamed \/ Destroy \/ Reload \/ ReadLine \/ ReadNothing
  \/ \E f \in Files \cup {EmptyString} : ConstructFrom(f) \/ Load(f)
  \/ \E k \in SettingKeys, v \in SettingValues : Add(k, v)

\* A call that runs reads on.
ConfigSpec == ConfigInit /\ [][ConfigNext]_configVars /\ WF_configVars(ReadLine)
-----------------------------------------------------------------------------
KeysIn(lines) == {lines[i].text.key : i \in {j \in DOMAIN lines : lines[j].text.kind = "setting"}}
LastOf(lines, k) ==
  LET is(i) == lines[i].text.kind = "setting" /\ lines[i].text.key = k
  IN lines[CHOOSE i \in DOMAIN lines : is(i) /\ \A j \in DOMAIN lines : is(j) => j <= i].text.value

Read == SubSeq(content, 1, Len(content) - Len(ifs))

\* When a Load or Reload ends, well or with an exception half way, the table is what
\* the lines it read say, the last for each key, over what there was before: after a
\* Load of an object with a name nothing else is left, a Reload or a first Load
\* keeps every other key, also those that are no longer in the file.
EndsAsRead ==
  [][pc = "read" /\ pc' = "idle" /\ made' =>
       LET kept == IF call = "Load" /\ named THEN {} ELSE DOMAIN before
       IN config_table_m' = [k \in kept \cup KeysIn(Read) |->
            IF k \in KeysIn(Read) THEN LastOf(Read, k) ELSE before[k]]]_configVars

\* A line is cut before one on which the table throws.
Stuck(lines) ==
  \E i \in DOMAIN lines : lines[i].cut /\ \A j \in 1..i : lines[j].text.kind # "mixed"

\* Whatever the file holds and whoever rewrites it, a call comes to return or throw,
\* if no line is cut or the table throws before it; if one is, it comes to where it
\* loops for ever.
CallsEnd ==
  /\ (pc = "read" /\ ~Stuck(ifs)) ~> pc = "idle"
  /\ (pc = "read" /\ Stuck(ifs)) ~> [](pc = "failed")
=============================================================================
