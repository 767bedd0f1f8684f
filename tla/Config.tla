---------------------------------- MODULE Config ----------------------------------
(***************************************************************************)
(* The configuration of a process (CCfg) and the service numbers that      *)
(* CMsgComm looks up in it.  A file is read line by line into a list of    *)
(* sections, each a list of keys and values; reading it again overwrites   *)
(* in place.  m_curCfgData is both the section that lines are added to and *)
(* the place where a lookup searches.  Reading again goes on in a signal   *)
(* handler or another thread when Concurrent.                              *)
(***************************************************************************)
EXTENDS Naturals, SequencesExt

CONSTANTS Files,       \* what the file may contain: sequences of lines <<"section", s>> and <<"item", k, v>>
          Sections, Keys,
          Ids,         \* the section of service numbers
          Concurrent,  \* whether the file is read again in the middle of a lookup
          MaxReloads, MaxLookups

NoSection == "none"

VARIABLES file,      \* what the file contains now
          list,      \* the sections, the newest first
          items,     \* of each section the pairs <<key, value>>, the newest first
          cur,       \* m_curCfgData
          reading,   \* the lines still to be read
          loaded,    \* whether it has been read to the end
          reloads,   \* how often the file has been read again
          names,     \* m_srvNameId: how many items of Ids it leads to
          given,     \* what the versions read so far say: triples <<section, key, value>>
          look,      \* the lookup going on, and what the last one returned
          lookups

vars == <<file, list, items, cur, reading, loaded, reloads, names, given, look, lookups>>

\* What a file says of a key: the last line of the section it stands under counts.
SectionAt(f, i) == LET before == {j \in 1..i : f[j][1] = "section"}
                   IN IF before = {} THEN NoSection ELSE f[CHOOSE j \in before : \A l \in before : l <= j][2]
LinesOf(f, s, k) == {i \in DOMAIN f : f[i][1] = "item" /\ f[i][2] = k /\ SectionAt(f, i) = s}
Says(f, s, k) == f[CHOOSE i \in LinesOf(f, s, k) : \A j \in LinesOf(f, s, k) : j <= i][3]
All(f) == {<<SectionAt(f, i), f[i][2], f[i][3]>> : i \in {i \in DOMAIN f : f[i][1] = "item"}}

Idle == [pc |-> "idle", for |-> NoSection]

Init == /\ file \in Files
        /\ list = <<>> /\ items = [s \in Sections |-> <<>>] /\ cur = NoSection
        /\ reading = file /\ loaded = FALSE /\ reloads = 0
        /\ names = 0
        /\ given = {}
        /\ look = Idle /\ lookups = 0

\* getItem: the first item with the key.
Has(s, k) == \E i \in DOMAIN items[s] : items[s][i][1] = k
Get(s, k) == SelectInSeq(items[s], LAMBDA kv : kv[1] = k)
GetSrvId(k) == LET seen == SubSeq(items[Ids], Len(items[Ids]) - names + 1, Len(items[Ids]))
                   i == SelectInSeq(seen, LAMBDA kv : kv[1] = k)
               IN IF i = 0 THEN 0 ELSE seen[i][2]

-----------------------------------------------------------------------------
(* createKV, add.                                                          *)

\* MUTANT of Added: an item read again is added once more, behind the others.
AddedBehind(s, k, v) == Append(items[s], <<k, v>>)

\* An item that is read again takes its value in place; another comes first.
Added(s, k, v) ==
  IF reloads > 0 /\ Has(s, k) THEN [items[s] EXCEPT ![Get(s, k)] = <<k, v>>]
  ELSE <<<<k, v>>>> \o items[s]

\* MUTANT of ReadSection: a section that is there already does not become the current one.
ReadSectionNew ==
  /\ reading # <<>> /\ Head(reading)[1] = "section"
  /\ LET s == Head(reading)[2]
     IN IF Contains(list, s) THEN UNCHANGED <<cur, list>> ELSE cur' = s /\ list' = <<s>> \o list
  /\ reading' = Tail(reading)
  /\ UNCHANGED <<file, items, loaded, reloads, names, given, look, lookups>>

\* getCurCfgData: a section is looked for, and made if it is not there.
ReadSection ==
  /\ reading # <<>> /\ Head(reading)[1] = "section"
  /\ cur' = Head(reading)[2]
  /\ list' = IF Contains(list, cur') THEN list ELSE <<cur'>> \o list
  /\ reading' = Tail(reading)
  /\ UNCHANGED <<file, items, loaded, reloads, names, given, look, lookups>>

\* An item outside of all sections is left out.
ReadItem ==
  /\ reading # <<>> /\ Head(reading)[1] = "item"
  /\ items' = IF cur = NoSection THEN items
              ELSE [items EXCEPT ![cur] = Added(cur, Head(reading)[2], Head(reading)[3])]
  /\ reading' = Tail(reading)
  /\ UNCHANGED <<file, list, cur, loaded, reloads, names, given, look, lookups>>

\* MUTANT of SrvNames: the list is taken once, when the file is first read.
SrvNamesKept == IF reloads = 0 THEN Len(items[Ids]) ELSE names

SrvNames == Len(items[Ids])

\* The end of the file; CMsgComm::init and reLoadCfg take the list of service numbers, a lookup.
Loaded == /\ reading = <<>> /\ ~loaded
          /\ loaded' = TRUE
          /\ given' = given \cup All(file)
          /\ names' = SrvNames
          /\ cur' = IF Contains(list, Ids) THEN Ids ELSE NoSection
          /\ UNCHANGED <<file, list, items, reading, reloads, look, lookups>>

\* reLoad.
Reload == /\ loaded /\ reloads < MaxReloads
          /\ Concurrent \/ look.pc = "idle"
          /\ file' \in Files
          /\ reading' = file' /\ loaded' = FALSE /\ reloads' = reloads + 1
          /\ UNCHANGED <<list, items, cur, names, given, look, lookups>>

-----------------------------------------------------------------------------
(* getSectionData, step by step.                                           *)

\* MUTANT of First: the search goes on from where the last one ended.
FirstNext == IF cur = NoSection /\ list # <<>> THEN list[1] ELSE cur

First == IF list = <<>> THEN NoSection ELSE list[1]

Ask(s) == /\ look.pc = "idle" /\ lookups < MaxLookups
          /\ Concurrent \/ loaded
          /\ lookups' = lookups + 1
          /\ IF cur = s THEN look' = [pc |-> "return", for |-> s] /\ UNCHANGED cur
             ELSE look' = [pc |-> "search", for |-> s] /\ cur' = First
          /\ UNCHANGED <<file, list, items, reading, loaded, reloads, names, given>>

After(s) == LET i == CHOOSE i \in DOMAIN list : list[i] = s
            IN IF i = Len(list) THEN NoSection ELSE list[i + 1]

Search == /\ look.pc = "search"
          /\ IF cur \in {look.for, NoSection} THEN look' = [look EXCEPT !.pc = "return"] /\ UNCHANGED cur
             ELSE cur' = After(cur) /\ UNCHANGED look
          /\ UNCHANGED <<file, list, items, reading, loaded, reloads, names, given, lookups>>

Return == /\ look.pc = "return"
          /\ look' = Idle
          /\ UNCHANGED <<file, list, items, cur, reading, loaded, reloads, names, given, lookups>>

Next == ReadSection \/ ReadItem \/ Loaded \/ Reload \/ (\E s \in Sections : Ask(s)) \/ Search \/ Return

Spec == Init /\ [][Next]_vars

-----------------------------------------------------------------------------
TypeOK == /\ cur \in Sections \cup {NoSection}
          /\ names <= Len(items[Ids])

\* Once a file has been read, for the first time or again, every key has the value that the file says,
\* its last line if there are several; a service number is found as the file has it.
ReadsFile == loaded => \A s \in Sections, k \in Keys : LinesOf(file, s, k) # {} =>
               /\ Has(s, k) /\ items[s][Get(s, k)][2] = Says(file, s, k)
               /\ s = Ids => GetSrvId(k) = Says(file, s, k)

\* No section has an item that no version of the file gave to that section.  ("Items outside of a section
\* are not supported", CCfg.cpp:160; read again, they go to the section looked up last.)
NothingElse == loaded => \A s \in Sections : \A i \in DOMAIN items[s] : <<s, items[s][i][1], items[s][i][2]>> \in given

\* A lookup returns the section it was asked for, or none when there is none.
RightSection == look.pc = "return" => cur = IF Contains(list, look.for) THEN look.for ELSE NoSection
=============================================================================
