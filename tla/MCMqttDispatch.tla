---------------------------- MODULE MCMqttDispatch ----------------------------
(***************************************************************************)
(* MqttDispatch for TLC, on every short filter and topic, and on longer    *)
(* ones of few levels, the filters of the form isTopicMatched assumes.     *)
(***************************************************************************)
EXTENDS MqttDispatch, SequencesExt

CONSTANTS
  MaxLen,      \* bound: characters of any filter and topic
  MaxFormLen,  \* bound: characters of the longer ones
  MaxLevels    \* bound: levels of the longer ones

MCCharacters == {"a", "b", "/", "+", "#"}

Strings(alphabet, m, n) == UNION {[1..k -> alphabet] : k \in m..n}

\* Longer strings, of which each level may be empty.
FewLevels(alphabet) ==
  {s \in Strings(alphabet, MaxLen + 1, MaxFormLen) :
     Cardinality(Ends(s)) <= MaxLevels}

MCTopics == Strings({"a", "b", "/"}, 0, MaxLen) \cup FewLevels({"a", "b", "/"})

MCFilters ==
  Strings(MCCharacters, 0, MaxLen) \cup
  {f \in FewLevels({"a", "/", "+", "#"}) : WellFormedFilter(f)}

\* Every filter, and short ones with another filter behind them.
MCHandlerTables ==
  {<<f, NoFilter>> : f \in MCFilters} \cup
  {<<f, g>> : f \in Strings(MCCharacters, 0, 1) \cup {NoFilter},
              g \in {<<"a">>, <<"#">>}}

-----------------------------------------------------------------------------
(* The rule of MQTT once more, on the sequences of levels.                 *)

Levels(s) ==
  LET ends == SetToSortSeq(Ends(s), <)
  IN [i \in 1..Len(ends) |->
        SubSeq(s, IF i = 1 THEN 1 ELSE ends[i - 1] + 1, ends[i] - 1)]

LevelMatches(fl, nl) == fl = <<"+">> \/ fl = nl

\* A last '#' also stands for the level above it.
Matches(f, n) ==
  IF Last(f) = <<"#">>
  THEN /\ Len(n) >= Len(f) - 1
       /\ \A i \in 1..(Len(f) - 1) : LevelMatches(f[i], n[i])
  ELSE /\ Len(n) = Len(f)
       /\ \A i \in 1..Len(f) : LevelMatches(f[i], n[i])

\* The level above: "a/#" and "a".
LevelAbove(f, n) == Last(f) = <<"#">> /\ Len(n) < Len(f)

\* A wildcard of the filter faces an empty level: "a/+" and "a/".
EmptyUnderWildcard(f, n) ==
  \E i \in 1..Len(f) :
    f[i] \in {<<"+">>, <<"#">>} /\ i \in 1..Len(n) /\ n[i] = <<>>

\* OnLevels, which the theorems use, is that rule without these two cases.
ASSUME OnLevelsIsTheRule ==
  \A f \in {x \in MCFilters : WellFormedFilter(x)}, n \in MCTopics :
    LET fl == Levels(f) nl == Levels(n) IN
    OnLevels(f, n) <=> /\ Matches(fl, nl)
                       /\ ~LevelAbove(fl, nl) /\ ~EmptyUnderWildcard(fl, nl)

=============================================================================
