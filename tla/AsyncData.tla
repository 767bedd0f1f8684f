-------------------------------- MODULE AsyncData --------------------------------
(***************************************************************************)
(* What a service remembers between a message it sends and the answer      *)
(* (CLocalAsyncData).  The data stay in the service, under an index; the   *)
(* message carries a flag, a text in which every service on the way notes  *)
(* its own id and index, and which comes back with the answer.  A service  *)
(* finds its note by searching the text for its id.                        *)
(*                                                                         *)
(* A handler runs alone in its service and is one action here.  Which      *)
(* messages it sends is the application's choice: it asks another service  *)
(* and waits for the answer, or answers.  A flag is the sequence of the    *)
(* characters that matter to the search.                                   *)
(***************************************************************************)
EXTENDS Integers, FiniteSetsExt, SequencesExt

CONSTANTS Services,
          Id,               \* Id[s]: the digits of the service's and the instance's number
          Bar,              \* the character behind an index
          MaxIdFlagIndex,   \* indices are used again after this many
          MaxFlagLen,       \* MaxLocalAsyncDataFlagLen
          MaxConvs,         \* bound on the conversations
          MaxLost,          \* bound on the messages that are lost
          Starts            \* how conversations begin: by a "service" message, by a "client"

IdAssumption == Id \in [Services -> Seq(0..9)] /\ Bar \notin 0..9
BoundsAssumption == MaxIdFlagIndex \in 1..10 /\ {MaxFlagLen, MaxConvs, MaxLost} \subseteq Nat
StartsAssumption == Starts \subseteq {"service", "client"}

Convs == 1..MaxConvs
None == 0

VARIABLES index,     \* m_index
          data,      \* m_idx2LocalAsyncData: the conversation the stored data are about
          context,   \* m_context.srvAsyncDataFlag of the service's module
          msgs,      \* messages under way
          waits,     \* waits[c]: the services that wait for an answer, the last to ask in front
          convs,     \* conversations so far
          refused,   \* conversations for which createData answered NULL, with the service
          lost       \* conversations a message of which was lost

vars == <<index, data, context, msgs, waits, convs, refused, lost>>

Init == /\ index = [s \in Services |-> 0]
        /\ data = [s \in Services |-> [i \in 0..(MaxIdFlagIndex - 1) |-> None]]
        /\ context = [s \in Services |-> <<>>]
        /\ msgs = {}
        /\ waits = [c \in Convs |-> <<>>]
        /\ convs = 0
        /\ refused = {}
        /\ lost = {}

-----------------------------------------------------------------------------
(* The flag.                                                               *)

Places(sub, text) == {p \in 1..(Len(text) - Len(sub) + 1) : SubSeq(text, p, p + Len(sub) - 1) = sub}

\* strstr: the first place of sub in text, or None.
Find(sub, text) == IF Places(sub, text) = {} THEN None
                   ELSE CHOOSE p \in Places(sub, text) : \A q \in Places(sub, text) : p <= q

Note(s, i) == Id[s] \o <<i, Bar>>

Number(digits) == FoldLeft(LAMBDA n, d : 10 * n + d, 0, digits)

\* getData: the number between the first place of the id and the next bar, if data are stored
\* under it.
IndexIn(s, flag) ==
  LET p == Find(Id[s], flag)
      from == p + Len(Id[s])
      bar == Find(<<Bar>>, SubSeq(flag, from, Len(flag)))
      i == Number(SubSeq(flag, from, from + bar - 2))
  IN  IF p # None /\ bar # None /\ i \in DOMAIN data[s] /\ data[s][i] # None THEN {i} ELSE {}

\* MUTANT of Next_: the counter is not moved on.
NextSame(s) == index[s]

Next_(s) == (index[s] + 1) % MaxIdFlagIndex

\* createData refuses a flag that has the service's id already, or no room.
Exists(s, flag) == flag # <<>> /\ Find(Id[s], flag) # None
HasRoom(s, flag) == MaxFlagLen - Len(flag) >= Len(Note(s, Next_(s)))

\* destroyData takes the service's note out of the flag.
Without(s, i, flag) ==
  LET p == Find(Note(s, i), flag)
  IN  IF p = None THEN flag
      ELSE SubSeq(flag, 1, p - 1) \o SubSeq(flag, p + Len(Note(s, i)), Len(flag))

-----------------------------------------------------------------------------
(* Handlers.                                                               *)

Message(from, to, kind, flag, c) == [from |-> from, to |-> to, kind |-> kind, flag |-> flag, conv |-> c]

\* Store data about c and ask t, with the flag that notes it; the context keeps the flag `left`
\* when the handler ends.  If createData refuses, nobody is asked.
Ask(s, t, flag, c, consumed) ==
  /\ ~Exists(s, flag) /\ HasRoom(s, flag)
  /\ LET i == Next_(s)
     IN  /\ index' = [index EXCEPT ![s] = i]
         /\ data' = [data EXCEPT ![s][i] = c]
         /\ waits' = [waits EXCEPT ![c] = <<s>> \o @]
         /\ msgs' = (msgs \ consumed) \union {Message(s, t, "request", flag \o Note(s, i), c)}
  /\ UNCHANGED <<refused, lost>>

Refused(s, flag, c) ==
  /\ Exists(s, flag) \/ ~HasRoom(s, flag)
  /\ index' = IF Exists(s, flag) THEN index ELSE [index EXCEPT ![s] = Next_(s)]
  /\ refused' = refused \union {<<s, c>>}
  /\ UNCHANGED <<data, lost>>

\* The first message comes from another service, without a flag.
ServiceStart(s, t) ==
  /\ "service" \in Starts /\ convs < MaxConvs
  /\ convs' = convs + 1
  /\ Ask(s, t, <<>>, convs + 1, {})
  /\ context' = [context EXCEPT ![s] = <<>>]

\* It comes from a client: the context is the one the last handler has left, and keeps the new note.
ClientStart(s, t) ==
  /\ "client" \in Starts /\ convs < MaxConvs
  /\ convs' = convs + 1
  /\ \/ /\ Ask(s, t, context[s], convs + 1, {})
        /\ context' = [context EXCEPT ![s] = @ \o Note(s, Next_(s))]
     \/ /\ Refused(s, context[s], convs + 1)
        /\ UNCHANGED <<context, msgs, waits>>

Answer(m, flag) == (msgs \ {m}) \union {Message(m.to, m.from, "answer", flag, m.conv)}

\* onServiceMessage sets the context for the handler, and clears it behind it.
Handle(m) == m \in msgs /\ context' = [context EXCEPT ![m.to] = <<>>] /\ UNCHANGED convs

AnswerAtOnce(m) ==
  /\ Handle(m) /\ m.kind = "request"
  /\ msgs' = Answer(m, m.flag)
  /\ UNCHANGED <<index, data, waits, refused, lost>>

AskOn(m, t) ==
  /\ Handle(m) /\ m.kind = "request"
  /\ Ask(m.to, t, m.flag, m.conv, {m})

\* createData answers NULL: the handler answers without help.
AskRefused(m) ==
  /\ Handle(m) /\ m.kind = "request"
  /\ Refused(m.to, m.flag, m.conv)
  /\ msgs' = Answer(m, m.flag)
  /\ UNCHANGED waits

\* MUTANT of TakeAnswer: destroyData is left out for the data, not for the note.
TakeAnswerKeeps(m) ==
  /\ Handle(m) /\ m.kind = "answer"
  /\ LET s == m.to
         found == IndexIn(s, m.flag)
         rest == Tail(waits[m.conv])
         flag == FoldSet(LAMBDA i, f : Without(s, i, f), m.flag, found)
     IN  /\ UNCHANGED data
         /\ waits' = [waits EXCEPT ![m.conv] = rest]
         /\ msgs' = (msgs \ {m}) \union {Message(s, t, "answer", flag, m.conv) : t \in {u \in Services : rest # <<>> /\ u = rest[1]}}
  /\ UNCHANGED <<index, refused, lost>>

\* The answer is here: take the data out, and answer the service that asked before.
TakeAnswer(m) ==
  /\ Handle(m) /\ m.kind = "answer"
  /\ LET s == m.to
         found == IndexIn(s, m.flag)
         rest == Tail(waits[m.conv])
         flag == FoldSet(LAMBDA i, f : Without(s, i, f), m.flag, found)
     IN  /\ data' = [data EXCEPT ![s] = [i \in DOMAIN @ |-> IF i \in found THEN None ELSE @[i]]]
         /\ waits' = [waits EXCEPT ![m.conv] = rest]
         /\ msgs' = (msgs \ {m}) \union {Message(s, t, "answer", flag, m.conv) : t \in {u \in Services : rest # <<>> /\ u = rest[1]}}
  /\ UNCHANGED <<index, refused, lost>>

\* A full queue, or a service that stops.
Lose(m) ==
  /\ m \in msgs /\ Cardinality(lost) < MaxLost
  /\ msgs' = msgs \ {m}
  /\ lost' = lost \union {m.conv}
  /\ UNCHANGED <<index, data, context, waits, convs, refused>>

-----------------------------------------------------------------------------
Handlers == \E m \in msgs : AnswerAtOnce(m) \/ AskRefused(m) \/ TakeAnswer(m)
                            \/ \E t \in Services \ {m.to} : AskOn(m, t)

Next == \/ \E s, t \in Services : s # t /\ (ServiceStart(s, t) \/ ClientStart(s, t))
        \/ Handlers
        \/ \E m \in msgs : Lose(m)

Spec == Init /\ [][Next]_vars

-----------------------------------------------------------------------------
TypeOK == /\ index \in [Services -> 0..(MaxIdFlagIndex - 1)]
          /\ \A s \in Services : Len(context[s]) <= MaxFlagLen
          /\ \A m \in msgs : Len(m.flag) <= MaxFlagLen

Asked(m) == waits[m.conv] # <<>> /\ Head(waits[m.conv]) = m.to

\* The service that gets the answer it waits for finds the data it stored for this conversation,
\* and no other, whichever services have added and removed notes of their own on the way.
FindsOwn == \A m \in msgs : m.kind = "answer" /\ Asked(m) =>
              \E i \in IndexIn(m.to, m.flag) : data[m.to][i] = m.conv

\* Data are stored only while somebody may still ask for them: once a conversation is over, and
\* none of its messages was lost, no service keeps anything of it.
NothingKept == \A c \in 1..convs : waits[c] = <<>> /\ c \notin lost
                 => \A s \in Services : \A i \in DOMAIN data[s] : data[s][i] # c

\* createData refuses for want of room, or for a conversation of which the service holds data
\* already ("already exists", CDataContent.cpp:51).
RefusedRightly == [][\A r \in refused' \ refused :
                       \/ \E i \in DOMAIN data[r[1]] : data[r[1]][i] = r[2]
                       \/ \E m \in msgs : m.to = r[1] /\ m.conv = r[2] /\ ~HasRoom(r[1], m.flag)]_vars
=============================================================================
