----------------------------- MODULE MqttDispatch -----------------------------
(***************************************************************************)
(* deliverMessage and isTopicMatched of src/mqtt/MQTTClient.c: the loop    *)
(* over the message handlers and, for each one with a filter, the loop     *)
(* that moves one cursor through the filter and one through the topic of   *)
(* the message.  The cursors count the characters they have passed.        *)
(*                                                                         *)
(* A handler with a filter has a function, MQTTSetMessageHandler assigns   *)
(* both, and there is no default handler: MQTTClientInit clears it and     *)
(* nothing sets it.                                                        *)
(***************************************************************************)
EXTENDS MqttTopics

CONSTANTS
  Characters,     \* of filters and topics
  MaxHandlers,    \* MAX_MESSAGE_HANDLERS
  NoFilter,       \* a topicFilter of 0
  HandlerTables,  \* the filters messageHandlers may hold
  Topics          \* of messages

ASSUME DispatchAssumption ==
  /\ MaxHandlers \in Nat
  /\ \A h \in HandlerTables :
       /\ DOMAIN h = 1..MaxHandlers
       /\ \A s \in 1..MaxHandlers : h[s] = NoFilter \/ h[s] \in Seq(Characters)
  /\ \A t \in Topics : t \in Seq(Characters)

VARIABLES
  handlers,  \* topicFilter of each of messageHandlers
  pc,        \* "idle", "slot", or the outer or the inner loop of the matcher
  topic,     \* topicName
  slot,      \* i of deliverMessage, from 1
  curf,      \* characters of the filter before the cursor
  curn,      \* characters of the topic before the cursor
  called     \* the handlers called for this message

cursors == <<curf, curn>>
vars == <<handlers, pc, topic, slot, cursors, called>>

Slots  == 1..MaxHandlers
filter == handlers[slot]

TypeOK ==
  /\ handlers \in HandlerTables
  /\ pc \in {"idle", "slot", "loop", "plus"}
  /\ topic \in Topics \cup {<<>>}
  /\ slot \in 1..(MaxHandlers + 1)
  /\ curf \in Nat /\ curn \in 0..Len(topic)
  /\ called \subseteq Slots

Init ==
  /\ handlers \in HandlerTables
  /\ pc = "idle" /\ topic = <<>>
  /\ slot = 1 /\ curf = 0 /\ curn = 0
  /\ called = {}

\* cycle has received a message.
Deliver(t) ==
  /\ pc = "idle"
  /\ pc' = "slot"
  /\ topic' = t
  /\ slot' = 1 /\ called' = {}
  /\ UNCHANGED <<handlers, cursors>>

\* The loop goes on to the next handler, after a call of this one or without.
NextSlot(hears) ==
  /\ called' = IF hears THEN called \cup {slot} ELSE called
  /\ slot' = slot + 1
  /\ pc' = "slot"
  /\ curf' = 0 /\ curn' = 0
  /\ UNCHANGED <<handlers, topic>>

\* No filter, or MQTTPacket_equals already decides.
Decide ==
  /\ pc = "slot" /\ slot \in Slots
  /\ filter \in {NoFilter, topic}
  /\ NextSlot(filter # NoFilter)

\* isTopicMatched is called.
Match ==
  /\ pc = "slot" /\ slot \in Slots
  /\ filter \notin {NoFilter, topic}
  /\ pc' = "loop"
  /\ UNCHANGED <<handlers, topic, slot, cursors, called>>

\* deliverMessage returns.
Return ==
  /\ pc = "slot" /\ slot \notin Slots
  /\ pc' = "idle" /\ topic' = <<>>
  /\ slot' = 1 /\ called' = {}
  /\ UNCHANGED <<handlers, cursors>>

-----------------------------------------------------------------------------
(* isTopicMatched.                                                         *)

\* while (*curf && curn < curn_end)
More == curf < Len(filter) /\ curn < Len(topic)

\* *curf and *curn
FilterChar == filter[curf + 1]
TopicChar  == topic[curn + 1]

\* Mutated form: a wildcard may stand for the separator too.
BreaksOnCharacter == FilterChar \notin {"+", "#", TopicChar}

\* The two breaks: a separator that the filter does not have here, another
\* character.
Breaks == \/ TopicChar = "/" /\ FilterChar # "/"
          \/ FilterChar \notin {"+", "#", TopicChar}

\* The body of the loop is run to its end once more.
GoesOn == More /\ ~Breaks

\* An ordinary character is passed in both.
Character ==
  /\ pc = "loop" /\ GoesOn
  /\ FilterChar \notin {"+", "#"}
  /\ curf' = curf + 1 /\ curn' = curn + 1
  /\ UNCHANGED <<handlers, pc, topic, slot, called>>

\* '#': to the last character of the topic, and past it.
Hash ==
  /\ pc = "loop" /\ GoesOn
  /\ FilterChar = "#"
  /\ curf' = curf + 1 /\ curn' = Len(topic)
  /\ UNCHANGED <<handlers, pc, topic, slot, called>>

\* '+': the inner loop is entered.
Plus ==
  /\ pc = "loop" /\ GoesOn
  /\ FilterChar = "+"
  /\ pc' = "plus"
  /\ UNCHANGED <<handlers, topic, slot, cursors, called>>

\* Mutated form: '+' takes one character instead of a level.
MoreOfNoLevel == FALSE

\* nextpos < curn_end && *nextpos != '/', where nextpos is curn + 1
MoreOfLevel == curn + 1 < Len(topic) /\ topic[curn + 2] # "/"

\* One more character of the level is skipped.
Skip ==
  /\ pc = "plus" /\ MoreOfLevel
  /\ curn' = curn + 1
  /\ UNCHANGED <<handlers, pc, topic, slot, curf, called>>

\* The level ends: both cursors move on.
LevelEnds ==
  /\ pc = "plus" /\ ~MoreOfLevel
  /\ pc' = "loop"
  /\ curf' = curf + 1 /\ curn' = curn + 1
  /\ UNCHANGED <<handlers, topic, slot, called>>

\* The loop is left, and the result is whether both are used up.
Result ==
  /\ pc = "loop" /\ ~GoesOn
  /\ NextSlot(curn = Len(topic) /\ curf = Len(filter))

Next ==
  \/ \E t \in Topics : Deliver(t)
  \/ Decide \/ Match \/ Return
  \/ Character \/ Hash \/ Plus \/ Skip \/ LevelEnds \/ Result

Spec == Init /\ [][Next]_vars

-----------------------------------------------------------------------------
(* Properties.                                                             *)

\* The cursors stay within filter and topic; where the inner loop of '+' looks
\* one character ahead there is one, or the end.
CursorsInside ==
  pc \in {"loop", "plus"} =>
    /\ slot \in Slots /\ curf <= Len(filter) /\ curn <= Len(topic)
    /\ pc = "plus" => curf < Len(filter) /\ curn < Len(topic)

\* deliverMessage calls the handlers whose filter the topic can be cut into,
\* and no other: the cursors, which never go back, find the cut when there is
\* one, and what one handler's filter leaves in them does not reach the next.
DispatchByCover ==
  pc = "slot" /\ slot \notin Slots
    => called = {s \in Slots : handlers[s] # NoFilter
                               /\ Delivers(handlers[s], topic)}

\* For every topic and every filter of the form isTopicMatched assumes,
\* deliverMessage calls the handlers OnLevels says: those that the rule of MQTT
\* asks for, except where '#' would have to stand for the level above it or a
\* wildcard for an empty level, which the first break of the loop refuses.
MatchesByLevels ==
  pc = "slot" /\ slot \notin Slots =>
    \A s \in Slots :
      handlers[s] # NoFilter /\ WellFormedFilter(handlers[s])
      => (s \in called <=> OnLevels(handlers[s], topic))

=============================================================================
