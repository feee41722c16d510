------------------------------ MODULE MqttTopics ------------------------------
(***************************************************************************)
(* What the matcher of src/mqtt/MQTTClient.c accepts, without its cursors, *)
(* and what it is there for.  For the matcher a topic is cut into parts,   *)
(* one for each character of the filter; for MQTT the levels of the filter *)
(* stand for levels of the topic.  Filters and topics are sequences of     *)
(* characters.                                                             *)
(***************************************************************************)
EXTENDS Naturals, Sequences

\* A character of a filter stands for the part of name after a and up to b:
\* '+' for the rest of a level, '#' for the rest of the name, any other for
\* itself.  No part is empty, and no wildcard begins with a separator.
Takes(c, name, a, b) ==
  /\ a < b
  /\ \/ /\ c = "+"
        /\ \A k \in (a + 1)..b : name[k] # "/"
        /\ b = Len(name) \/ name[b + 1] = "/"
     \/ c = "#" /\ name[a + 1] # "/" /\ b = Len(name)
     \/ c \notin {"+", "#"} /\ b = a + 1 /\ name[b] = c

\* cut says where the part of each character ends, for the first n of them.
CutsUpTo(cut, filter, name, n) ==
  cut[0] = 0 /\ \A i \in 1..n : Takes(filter[i], name, cut[i - 1], cut[i])

Covers(filter, name) ==
  \E cut \in [0..Len(filter) -> 0..Len(name)] :
    /\ CutsUpTo(cut, filter, name, Len(filter))
    /\ cut[Len(filter)] = Len(name)

\* The filter is compared with MQTTPacket_equals before it is matched.
Delivers(filter, name) == filter = name \/ Covers(filter, name)

-----------------------------------------------------------------------------
(* Levels.  One is given by the bounds d and e it lies between: 0, a       *)
(* separator or the position after the last character.                     *)

Ends(s)   == {k \in 1..(Len(s) + 1) : k = Len(s) + 1 \/ s[k] = "/"}
Bounds(s) == {0} \cup Ends(s)

Level(s, d, e) ==
  /\ d \in Bounds(s) /\ e \in Ends(s) /\ d < e
  /\ \A k \in (d + 1)..(e - 1) : s[k] # "/"

\* A level of a filter stands for what lies between a and b in name: '#' for
\* one level or more, the first of them not empty, '+' for any level that is
\* not empty, any other for an equal one.
StandsFor(filter, d, e, name, a, b) ==
  \/ e = d + 2 /\ filter[d + 1] = "#" /\ a + 1 < b /\ name[a + 1] # "/"
  \/ /\ Level(name, a, b)
     /\ \/ e = d + 2 /\ filter[d + 1] = "+" /\ a + 1 < b
        \/ e - d = b - a /\ \A k \in 1..(e - d - 1) : filter[d + k] = name[a + k]

\* The rule of MQTT but for two things.  "a/#" does not stand for "a", and a
\* wildcard does not stand for an empty level: not "#" for "/b", not "a/+" for
\* "a/", not "a/+/b" for "a//b".  MQTT wants all of these delivered.
OnLevels(filter, name) ==
  \E h \in [Bounds(filter) -> Bounds(name)] :
    /\ h[0] = 0 /\ h[Len(filter) + 1] = Len(name) + 1
    /\ \A d, e \in Bounds(filter) :
         Level(filter, d, e) => StandsFor(filter, d, e, name, h[d], h[e])

\* "topic filter and name is in correct format; # can only be at end; + and #
\* can only be next to separator".  Levels may be empty, and of a topic
\* nothing is asked.
WellFormedFilter(s) ==
  \A k \in 1..Len(s) :
    /\ s[k] \in {"+", "#"} => k - 1 \in Bounds(s) /\ k + 1 \in Bounds(s)
    /\ s[k] = "#" => k = Len(s)

=============================================================================
