---------------------------- MODULE AutoMachine ----------------------------
(***************************************************************************)
(* The keyword automaton of src/src/AutoMachine.cpp (Aho-Corasick): words   *)
(* are added to an entry, Prepare builds the table of transitions from     *)
(* them, and the Find functions read a text through it.  Prepare runs in    *)
(* two phases: it inserts the words one by one, then walks the table        *)
(* breadth first with a circular queue and turns it into a full automaton.  *)
(***************************************************************************)
EXTENDS Naturals, Sequences, SequencesExt, FiniteSets

CONSTANTS
  Alphabet,     \* the characters, in the order of their codes
  Upper,        \* 'a'..'z' to 'A'..'Z', any other character to itself
  Words,        \* the words the program may add
  Models,       \* whether it prepares with FIND_MATCHCASE
  Calls,        \* the Find functions it calls
  MaxFindLen,   \* MAX_FIND_LEN
  MaxWords, MaxText, MaxTotal   \* bounds of the model

Chars == ToSet(Alphabet)

KN == "KN"              \* the column that holds the word that ends in a state
Columns == Chars \cup {KN}

ASSUME MachineAssumption ==
  /\ Alphabet \in Seq(Chars) /\ IsInjective(Alphabet) /\ KN \notin Chars
  /\ Upper \in [Chars -> Chars] /\ \A c \in Chars : Upper[Upper[c]] = Upper[c]
  /\ Words \subseteq Seq(Chars) \ {<<>>} /\ Models \subseteq BOOLEAN
  /\ MaxFindLen \in Nat /\ MaxWords \in Nat /\ MaxText \in Nat /\ MaxTotal \in Nat

VARIABLES
  wordlist,     \* the words; word i ends in state i
  findnum,      \* how often each was found
  totalfind,
  states,       \* the table, a row for each state, or <<>>
  usedstates,
  matchcase,    \* FIND_MATCHCASE was set in the model of the last Prepare
  prepared,     \* how many words the last Prepare inserted
  phase,        \* what Prepare is doing
  next_word,    \* the word it inserts next
  queue,        \* its states yet to visit, each with its failure state
  call,         \* the Find function that is running
  state,        \* where it is in the table
  text,         \* what it has read
  word,         \* the word it last reported, or 0
  findword,     \* the words FindAllUntilNull has listed
  full,         \* it gave up for lack of room
  undefined     \* it read a word beyond the list

entry == <<wordlist, findnum, totalfind>>
table == <<states, usedstates, matchcase, prepared>>
building == <<phase, next_word, queue>>
search == <<call, state, text, word, findword, full, undefined>>
vars == <<entry, table, building, search>>

wordsnum == Len(wordlist)
\* The total length of the first n words.
lengths[n \in 0..wordsnum] == IF n = 0 THEN 0 ELSE lengths[n - 1] + Len(wordlist[n])
wordslength == lengths[wordsnum]

\* The rows Prepare allocates.
Rows == wordslength + 2

TypeOK ==
  /\ wordlist \in Seq(Words) /\ findnum \in [1..wordsnum -> Nat] /\ totalfind \in Nat
  /\ \A s \in DOMAIN states : states[s] \in [Columns -> Nat]
  /\ usedstates \in Nat /\ matchcase \in BOOLEAN /\ prepared \in 0..wordsnum
  /\ phase \in {"idle", "insert", "fill"} /\ next_word \in Nat
  /\ \A j \in 1..Len(queue) : {queue[j].from, queue[j].to} \subseteq DOMAIN states
  /\ call \in Calls \cup {"none"} /\ (call # "none" => state \in DOMAIN states)
  /\ text \in Seq(Chars) /\ word \in 0..wordsnum
  /\ \A j \in 1..Len(findword) : findword[j] \in 1..wordsnum
  /\ full \in BOOLEAN /\ undefined \in BOOLEAN

Init ==
  /\ wordlist = <<>> /\ findnum = <<>> /\ totalfind = 0
  /\ states = <<>> /\ usedstates = 0 /\ matchcase = FALSE /\ prepared = 0
  /\ phase = "idle" /\ next_word = 1 /\ queue = <<>>
  /\ call = "none" /\ state = 0 /\ text = <<>> /\ word = 0
  /\ findword = <<>> /\ full = FALSE /\ undefined = FALSE

Idle == phase = "idle" /\ call = "none"
-----------------------------------------------------------------------------
Addword(w) ==
  /\ Idle /\ wordsnum < MaxWords
  /\ wordlist' = Append(wordlist, w)
  /\ findnum' = Append(findnum, 0)
  /\ UNCHANGED <<totalfind, table, building, search>>

\* Clear, and RemoveEntry followed by strMatchInit.
Clear ==
  /\ Idle
  /\ wordlist' = <<>> /\ findnum' = <<>> /\ totalfind' = 0
  /\ states' = <<>> /\ usedstates' = 0 /\ prepared' = 0
  /\ UNCHANGED <<matchcase, building, search>>

Prepare(m) ==
  /\ Idle /\ wordsnum >= 1
  /\ states' = [s \in 0..(Rows - 1) |-> [c \in Columns |-> 0]]
  /\ usedstates' = wordsnum + 1
  /\ matchcase' = m
  /\ phase' = "insert" /\ next_word' = 1
  /\ prepared' = wordsnum
  /\ UNCHANGED <<entry, queue, search>>

Folded(c) == IF matchcase THEN c ELSE Upper[c]

\* The character as it is.
BugWalked(a, c) ==
  IF a.states[a.n][c] = 0
  THEN [states |-> [a.states EXCEPT ![a.n][c] = a.k],
        l |-> a.n, c |-> c, n |-> a.k, k |-> a.k + 1, is_prefix |-> FALSE]
  ELSE [a EXCEPT !.l = a.n, !.c = c, !.n = a.states[a.n][c]]

\* One character of a word, from state n, k being the next free state.
Walked(a, ch) ==
  LET c == Folded(ch)
  IN IF a.states[a.n][c] = 0
     THEN [states |-> [a.states EXCEPT ![a.n][c] = a.k],
           l |-> a.n, c |-> c, n |-> a.k, k |-> a.k + 1, is_prefix |-> FALSE]
     ELSE [a EXCEPT !.l = a.n, !.c = c, !.n = a.states[a.n][c]]

\* The whole word, from state 0.
Walk(w) ==
  LET a[j \in 0..Len(w)] ==
        IF j = 0
        THEN [states |-> states, l |-> 0, c |-> KN, n |-> 0, k |-> usedstates, is_prefix |-> TRUE]
        ELSE Walked(a[j - 1], w[j])
  IN  a[Len(w)]

\* A word never gives its last state back.
BugInsertLeak ==
  /\ phase = "insert" /\ next_word <= wordsnum
  /\ LET i == next_word
         a == Walk(wordlist[i])
         linked == [a.states EXCEPT ![a.l][a.c] = i]
         row == IF a.is_prefix THEN linked[a.n] ELSE linked[i]
     IN /\ states' = [linked EXCEPT ![i] = [row EXCEPT ![KN] = i]]
        /\ usedstates' = a.k
  /\ next_word' = next_word + 1
  /\ UNCHANGED <<entry, matchcase, prepared, phase, queue, search>>

\* Word i is walked from state 0.  It ends in state i in place of the state n the
\* walk came to: i takes over what follows n, unless n is new, and then n is free
\* again.
Insert ==
  /\ phase = "insert" /\ next_word <= wordsnum
  /\ LET i == next_word
         a == Walk(wordlist[i])
         linked == [a.states EXCEPT ![a.l][a.c] = i]
         new == a.n = a.k - 1 /\ ~a.is_prefix
         row == IF new THEN linked[i] ELSE linked[a.n]
     IN /\ states' = [linked EXCEPT ![i] = [row EXCEPT ![KN] = i]]
        /\ usedstates' = IF new THEN a.k - 1 ELSE a.k
  /\ next_word' = next_word + 1
  /\ UNCHANGED <<entry, matchcase, prepared, phase, queue, search>>

\* The states of depth 1, whose failure state is 0.
FirstStates ==
  LET q[j \in 0..Len(Alphabet)] ==
        IF j = 0 THEN <<>>
        ELSE LET l == states[0][Alphabet[j]]
             IN  IF l = 0 THEN q[j - 1] ELSE Append(q[j - 1], [from |-> 0, to |-> l])
  IN  q[Len(Alphabet)]

\* The second phase starts with them.
Inserted ==
  /\ phase = "insert" /\ next_word > wordsnum
  /\ queue' = FirstStates
  /\ phase' = "fill"
  /\ UNCHANGED <<entry, table, next_word, search>>

\* A child l of the state being visited: its failure state is f, and a word that
\* ends in f ends in l too.
Child(a, l, f) ==
  [states |-> IF a.states[f][KN] = 0 THEN a.states
              ELSE [a.states EXCEPT ![l][KN] =
                      IF f \in 1..wordsnum THEN f ELSE a.states[f][KN]],
   queue |-> Append(a.queue, [from |-> f, to |-> l])]

\* One column of the state h.to, whose failure state is h.from.
Column(a, h, c) ==
  IF a.states[h.to][c] # 0
  THEN Child(a, a.states[h.to][c], a.states[h.from][c])
  ELSE [a EXCEPT !.states[h.to][c] = a.states[h.from][c]]

\* All of them, in the order of the alphabet.
Visit(h) ==
  LET a[j \in 0..Len(Alphabet)] ==
        IF j = 0 THEN [states |-> states, queue |-> queue]
        ELSE Column(a[j - 1], h, Alphabet[j])
  IN  a[Len(Alphabet)]

\* The state stays in the queue unless it has children.
BugFill ==
  /\ phase = "fill" /\ queue # <<>>
  /\ LET a == Visit(Head(queue))
     IN states' = a.states /\ queue' = IF a.queue = queue THEN queue ELSE Tail(a.queue)
  /\ UNCHANGED <<entry, usedstates, matchcase, prepared, phase, next_word, search>>

\* The state at the head of the queue: its children are queued, and where it has
\* none it goes where its failure state goes.
Fill ==
  /\ phase = "fill" /\ queue # <<>>
  /\ LET a == Visit(Head(queue))
     IN states' = a.states /\ queue' = Tail(a.queue)
  /\ UNCHANGED <<entry, usedstates, matchcase, prepared, phase, next_word, search>>

\* Without FIND_MATCHCASE a small letter goes where its capital goes.
Filled ==
  /\ phase = "fill" /\ queue = <<>>
  /\ states' = [s \in DOMAIN states |->
                  [c \in Columns |-> IF c = KN \/ s >= usedstates THEN states[s][c]
                                     ELSE states[s][Folded(c)]]]
  /\ phase' = "idle"
  /\ UNCHANGED <<entry, usedstates, matchcase, prepared, next_word, queue, search>>
-----------------------------------------------------------------------------
\* A Find function is called on a new text, with state 0.
Find(f) ==
  /\ Idle /\ ~undefined /\ states # <<>> /\ totalfind <= MaxTotal
  /\ call' = f
  /\ state' = 0 /\ text' = <<>> /\ word' = 0 /\ findword' = <<>> /\ full' = FALSE
  /\ UNCHANGED <<entry, table, building, undefined>>

\* The words of ws that follow w by way of the KN column.
Following(ws) ==
  LET F[w \in DOMAIN states] ==
        LET next == states[w][KN]
        IN  IF next = w THEN <<>> ELSE (IF next \in ws THEN <<next>> ELSE <<>>) \o F[next]
  IN F

Reading(f, c) ==
  /\ call = f /\ ~full /\ ~undefined /\ Len(text) < MaxText
  /\ state' = states[state][c] /\ text' = Append(text, c)

BugFindUntilNull(c) ==
  /\ Reading("FindUntilNull", c)
  /\ word' = states[state'][KN]
  /\ UNCHANGED <<entry, table, building, call, findword, full, undefined>>

\* FindUntilNull returns at a word; the next call goes on behind it, in its state.
FindUntilNull(c) ==
  /\ Reading("FindUntilNull", c)
  /\ word' = IF states[state'][KN] = 0 THEN 0
             ELSE IF state' <= wordsnum THEN state' ELSE states[state'][KN]
  /\ UNCHANGED <<entry, table, building, call, findword, full, undefined>>

\* FindUntilLen returns at a word, and the state is lost.  No state has F_TERMINATE.
FindUntilLen(c) ==
  /\ Reading("FindUntilLen", c) /\ word = 0
  /\ word' = states[state'][KN]
  /\ UNCHANGED <<entry, table, building, call, findword, full, undefined>>

\* The words in ws are counted, in this order.
Count(ws) ==
  findnum' = [i \in DOMAIN findnum |->
                findnum[i] + Cardinality({j \in 1..Len(ws) : ws[j] = i})]

\* The words that end in state s: its own, then those of the KN column.
Ending(s) ==
  IF states[s][KN] = 0 THEN <<>>
  ELSE (IF s <= wordsnum THEN <<s>> ELSE <<>>) \o Following(0..wordsnum)[s]

\* The chain is followed from the state instead of from the word in its KN column.
BugFindAllUntilLen(c) ==
  /\ Reading("FindAllUntilLen", c)
  /\ LET w == states[state'][KN]
         ws == IF w = 0 THEN <<>> ELSE <<w>> \o Following(Nat)[state']
     IN Count(ws) /\ totalfind' = totalfind + Len(ws)
  /\ UNCHANGED <<wordlist, table, building, call, word, findword, full, undefined>>

FindAllUntilLen(c) ==
  /\ Reading("FindAllUntilLen", c)
  /\ LET w == states[state'][KN]
         ws == IF w = 0 THEN <<>> ELSE <<w>> \o Following(Nat)[w]
     IN Count(ws) /\ totalfind' = totalfind + Len(ws)
  /\ UNCHANGED <<wordlist, table, building, call, word, findword, full, undefined>>

\* The length of findword: a separator follows each word.
Listed == FoldLeft(LAMBDA n, i : n + Len(wordlist[i]) + 1, 0, findword)

\* Each of the words that end here is counted; then wordlist[state - 1] is listed,
\* whichever word it is, if there is room, or else the search is over.
FindAll(f, c, limited) ==
  /\ Reading(f, c)
  /\ LET ws == Ending(state')
         len == IF state' <= wordsnum THEN Len(wordlist[state']) ELSE 0
         listed == {j \in 1..Len(ws) :
                      limited => Listed + (j - 1) * (len + 1) + len <= MaxFindLen - 2}
         n == Cardinality(listed)
     IN IF ws # <<>> /\ state' \notin 1..wordsnum
        THEN undefined' = TRUE /\ UNCHANGED <<findnum, totalfind, findword, full>>
        ELSE /\ full' = (n < Len(ws))
             /\ Count(SubSeq(ws, 1, IF full' THEN n + 1 ELSE n))
             /\ totalfind' = totalfind + n
             /\ findword' = findword \o [j \in 1..n |-> state']
             /\ UNCHANGED undefined
  /\ UNCHANGED <<wordlist, table, building, call, word>>

FindAllUntilNull(c) == FindAll("FindAllUntilNull", c, TRUE)

\* The same without a limit to what is listed.
FindAllUntilNullWithID(c) == FindAll("FindAllUntilNullWithID", c, FALSE)

\* The text is over, or the search has returned.
Return ==
  /\ call # "none"
  /\ call' = "none"
  /\ state' = 0 /\ text' = <<>> /\ word' = 0 /\ findword' = <<>> /\ full' = FALSE
  /\ UNCHANGED <<entry, table, building, undefined>>
-----------------------------------------------------------------------------
PrepareStep == Insert \/ Inserted \/ Fill \/ Filled

Next ==
  \/ \E w \in Words : Addword(w)
  \/ Clear
  \/ \E m \in Models : Prepare(m)
  \/ PrepareStep
  \/ \E f \in Calls : Find(f)
  \/ \E c \in Chars :
       \/ FindUntilNull(c) \/ FindUntilLen(c) \/ FindAllUntilLen(c)
       \/ FindAllUntilNull(c) \/ FindAllUntilNullWithID(c)
  \/ Return

Spec == Init /\ [][Next]_vars

\* Prepare runs to its end.
FairSpec == Spec /\ WF_vars(PrepareStep)
-----------------------------------------------------------------------------
\* The rows allocated from the length of the words are enough for the states
\* that inserting them takes, words with common prefixes included, and no entry
\* of the table leads outside it.
RowsFit ==
  states # <<>> /\ prepared = wordsnum =>
    /\ usedstates <= Rows
    /\ \A s \in 0..(usedstates - 1), c \in Columns : states[s][c] < usedstates

\* The circular queue has wordsnum + 1 places, and full would look empty.
QueueFits == Len(queue) <= wordsnum

\* Prepare, whatever the words and their order, and the searches stay inside the
\* arrays.
ArraysFit == TypeOK /\ RowsFit /\ QueueFits

\* Prepare ends, whatever the words.
PrepareEnds == (phase # "idle") ~> (phase = "idle")

Same(s) == [j \in DOMAIN s |-> Folded(s[j])]

\* Word j ends where the search is in the text.
EndsHere(j) == IsSuffix(Same(wordlist[j]), Same(text))

\* The table was made from the words that are there now.
Current == prepared = wordsnum

\* Every word is found where it first ends, and nothing else is.
WordReported ==
  call \in {"FindUntilNull", "FindUntilLen"} /\ Current /\ text # <<>> =>
    /\ word # 0 <=> \E j \in 1..wordsnum : EndsHere(j)
    /\ word # 0 => EndsHere(word)

\* Of several words that end at the same character FindUntilNull reports the longest;
\* a longer one that ends later it does not wait for.
LongestReported ==
  call = "FindUntilNull" /\ Current /\ word # 0 =>
    \A j \in 1..wordsnum : EndsHere(j) => Len(wordlist[j]) <= Len(wordlist[word])

Read == Len(text') = Len(text) + 1 /\ ~undefined' /\ Current

\* A word that was added again later is counted under its last number.
Counted(j) == EndsHere(j) /\ \A i \in (j + 1)..wordsnum : Same(wordlist[i]) # Same(wordlist[j])

\* A search for all words counts no word where it does not end, and none twice.
OnlyOccurrencesCounted ==
  [][Read => \A j \in 1..wordsnum :
               \/ findnum'[j] = findnum[j]
               \/ findnum'[j] = findnum[j] + 1 /\ Counted(j)']_vars

\* The word of the state that FindAllUntilLen is in, if others end there too: it is not
\* counted, as the KN column of its state leads past it to the others.
Covered(j) ==
  call = "FindAllUntilLen" /\ j = state /\ \E i \in (1..wordsnum) \ {j} : Counted(i)

\* It counts every other word that ends at each character, also those that end inside
\* another word or together with it.
AllOccurrencesCounted ==
  [][Read /\ call \in {"FindAllUntilLen", "FindAllUntilNull", "FindAllUntilNullWithID"}
          /\ ~full' =>
       \A j \in 1..wordsnum :
         findnum'[j] = findnum[j] + 1 <=> Counted(j)' /\ ~Covered(j)']_vars

\* Each occurrence of each word is counted once, but for those that FindAllUntilLen
\* does not see.
OccurrencesCounted == OnlyOccurrencesCounted /\ AllOccurrencesCounted

\* What a comment in FindUntilNull says of it: of a word and one that goes on where that
\* one ends, the longer is returned if the text goes on with it.
LongerReturned ==
  [][Read /\ call = "FindUntilNull" /\ word # 0 =>
       ~ \E j \in 1..wordsnum :
           /\ EndsHere(j)'
           /\ Len(wordlist[j]) = Len(wordlist[word]) + 1
           /\ IsPrefix(Same(wordlist[word]), Same(wordlist[j]))]_vars
=============================================================================
