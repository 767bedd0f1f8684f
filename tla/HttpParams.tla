------------------------------- MODULE HttpParams -------------------------------
(***************************************************************************)
(* Parameters in an HTTP message: how CHttpRequest builds them             *)
(* (setParamValue, getMessage) and how CHttpDataParser takes them apart    *)
(* again, from the first line of a request (parseHeader) and from a body   *)
(* (parseKeyToValue).  Text is a sequence of characters.                   *)
(***************************************************************************)
EXTENDS Naturals, SequencesExt

CONSTANTS Keys, Values,   \* texts the user passes to setParamValue
          MaxParams       \* bound on the parameters of a request

VARIABLES given,          \* the parameters set so far
          param           \* m_param

vars == <<given, param>>

Init == given = <<>> /\ param = <<>>

Pair(p) == p.key \o <<"=">> \o p.value

\* MUTANT of Joined: the separator is left out before the second parameter.
JoinedPlain(text, p) == text \o Pair(p)

Joined(text, p) == IF Len(text) > 0 THEN text \o <<"&">> \o Pair(p) ELSE Pair(p)

SetParamValue(p) == /\ Len(given) < MaxParams
                    /\ given' = Append(given, p)
                    /\ param' = Joined(param, p)

Next == \E k \in Keys, v \in Values : SetParamValue([key |-> k, value |-> v])
Spec == Init /\ [][Next]_vars

-----------------------------------------------------------------------------
\* The first line of the message; "/" stands for the URL and "H" for the version.
FirstLine == <<"G", "E", "T", " ", "/">> \o (IF Len(param) < 1 THEN <<>> ELSE <<"?">> \o param) \o <<" ", "H">>

Put(map, key, value) == [k \in DOMAIN map \cup {key} |-> IF k = key THEN value ELSE map[k]]
Nothing == [k \in {} |-> <<>>]

\* MUTANT of Scan: the key is not begun anew behind a value.
ScanOn(st, ch) ==
  CASE ~st.in /\ ch = "=" -> [st EXCEPT !.in = TRUE]
    [] ~st.in /\ ch # "=" -> [st EXCEPT !.key = Append(@, ch)]
    [] st.in /\ ch = "&"  -> [st EXCEPT !.in = FALSE, !.value = <<>>, !.map = Put(@, st.key, st.value)]
    [] OTHER              -> [st EXCEPT !.value = Append(@, ch)]

\* One character of the parameters: `in` is set between "=" and "&".
Scan(st, ch) ==
  CASE ~st.in /\ ch = "=" -> [st EXCEPT !.in = TRUE]
    [] ~st.in /\ ch # "=" -> [st EXCEPT !.key = Append(@, ch)]
    [] st.in /\ ch = "&"  -> [in |-> FALSE, key |-> <<>>, value |-> <<>>, map |-> Put(st.map, st.key, st.value)]
    [] OTHER              -> [st EXCEPT !.value = Append(@, ch)]

Scanned(text, first) == FoldLeft(Scan, [in |-> FALSE, key |-> first, value |-> <<>>, map |-> Nothing], text)

\* parseHeader: the method ends at the first space, the URL at "?" or the second space, the parameters
\* at the space behind them, where the last of them is stored even if it is empty.
IndexOf(text, chars, from) == CHOOSE i \in from..Len(text) :
                                /\ text[i] \in chars
                                /\ \A j \in from..(i - 1) : text[j] \notin chars
ParseHeader(line) ==
  LET m == IndexOf(line, {" "}, 1)
      u == IndexOf(line, {"?", " "}, m + 1)
      e == IndexOf(line, {" "}, u + 1)
      st == Scanned(SubSeq(line, u + 1, e - 1), <<>>)
  IN [method |-> SubSeq(line, 1, m - 1), url |-> SubSeq(line, m + 1, u - 1),
      params |-> IF line[u] = " " THEN Nothing ELSE IF st.in THEN Put(st.map, st.key, st.value) ELSE st.map]

\* parseKeyToValue: the first character is part of the key whatever it is, and an empty value at the
\* end is not stored.
ParseKeyToValue(text) ==
  IF text = <<>> THEN Nothing
  ELSE LET st == Scanned(Tail(text), <<Head(text)>>)
       IN IF st.in /\ st.value # <<>> THEN Put(st.map, st.key, st.value) ELSE st.map

-----------------------------------------------------------------------------
\* Of parameters with the same key the last one counts.
Given(ps) == [k \in {ps[i].key : i \in DOMAIN ps} |->
                ps[CHOOSE i \in DOMAIN ps : ps[i].key = k /\ \A j \in DOMAIN ps : ps[j].key = k => j <= i].value]

\* setParamValue takes values as they are.  No value holds the separator of parameters:
Separable == \A i \in DOMAIN given : "&" \notin ToSet(given[i].value)
\* The first line ends the parameters at a space: what is behind the first one in a value is lost.
BeforeSpace(text) == LET i == SelectInSeq(text, LAMBDA ch : ch = " ") IN IF i = 0 THEN text ELSE SubSeq(text, 1, i - 1)
UpToSpace == LET i == SelectInSeq(given, LAMBDA p : " " \in ToSet(p.value))
             IN IF i = 0 THEN given ELSE Append(SubSeq(given, 1, i - 1), [given[i] EXCEPT !.value = BeforeSpace(@)])

\* What is parsed from the first line is what was set, up to the first space in a value, and if no value
\* holds a separator; "=" may occur in it.
UrlRoundTrip == Separable => ParseHeader(FirstLine) = [method |-> <<"G", "E", "T">>, url |-> <<"/">>, params |-> Given(UpToSpace)]

\* Not so: with "&" or a space in a value, which nothing escapes, other parameters are parsed.
AnyValue == ParseHeader(FirstLine).params = Given(given)

\* In a body a space is a character as any other, and an empty value at the end leaves an earlier one standing.
Stored == IF given # <<>> /\ Last(given).value = <<>> THEN Front(given) ELSE given
BodyRoundTrip == Separable /\ (given = <<>> \/ Head(given).key # <<>>) => ParseKeyToValue(param) = Given(Stored)
=============================================================================
