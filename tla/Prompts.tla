------------------------------- MODULE Prompts -------------------------------
(***************************************************************************)
(* What becomes of a conversation on its way upstream: EnrichContext puts  *)
(* memory before it, and each kind of provider client arranges it in its   *)
(* own way.  A message is its role and the set of texts it carries.        *)
(***************************************************************************)
EXTENDS Integers, Sequences

CONSTANT Words  \* the texts a message may carry

\* messagesToGeminiContents passes over a message with any other role.
Roles == {"system", "user", "assistant", "tool"}
Messages == [role : Roles, texts : SUBSET Words]
Message(role, texts) == [role |-> role, texts |-> texts]

\* The last message of the user, 0 when there is none.
LastUser(msgs) ==
    LET users == {i \in 1..Len(msgs) : msgs[i].role = "user"}
    IN  IF users = {} THEN 0 ELSE CHOOSE i \in users : \A j \in users : j <= i

\* The context goes into a copy of the system message that the conversation
\* begins with, or into a new one; the whole conversation follows.
WithContext(msgs, context) ==
    IF msgs[1].role = "system"
    THEN <<Message("system", msgs[1].texts \cup context)>> \o msgs
    ELSE <<Message("system", context)>> \o msgs

\* Mutant of KiroHistory: the last pair before the question is left out.
KiroHistoryShort(msgs) ==
    [p \in {i \in 1..LastUser(msgs) - 3 : i % 2 = 1 /\ msgs[i].role = "user" /\ msgs[i + 1].role = "assistant"} |->
        <<msgs[p].texts, msgs[p + 1].texts>>]

\* buildKiroRequest's history: of the messages before the question, taken two
\* by two from the first, the pairs of a user's and an assistant's.
KiroHistory(msgs) ==
    [p \in {i \in 1..LastUser(msgs) - 2 : i % 2 = 1 /\ msgs[i].role = "user" /\ msgs[i + 1].role = "assistant"} |->
        <<msgs[p].texts, msgs[p + 1].texts>>]

\* messagesToGeminiContents: each system message goes to the front.
GeminiContents(msgs) ==
    LET contents[n \in 0..Len(msgs)] ==
            IF n = 0 THEN <<>>
            ELSE IF msgs[n].role = "system" THEN <<msgs[n]>> \o contents[n - 1]
            ELSE Append(contents[n - 1], msgs[n])
    IN  contents[Len(msgs)]

-----------------------------------------------------------------------------
IsSystem(m) == m.role = "system"
IsTurn(m) == m.role # "system"
Turns(msgs) ==
    LET turns[n \in 0..Len(msgs)] ==
            IF n = 0 THEN <<>>
            ELSE IF IsTurn(msgs[n]) THEN Append(turns[n - 1], msgs[n])
            ELSE turns[n - 1]
    IN  turns[Len(msgs)]

\* k system messages, and then the user's and the assistant's turns in turn up to
\* a question.
Dialogue(msgs, k) ==
    /\ (Len(msgs) - k) % 2 = 1
    /\ \A i \in 1..Len(msgs) :
          msgs[i].role = IF i <= k THEN "system" ELSE IF (i - k) % 2 = 1 THEN "user" ELSE "assistant"

\* The texts of a request to kiro: the question's and the history's.
SentToKiro(msgs) ==
    UNION ({msgs[i].texts : i \in {LastUser(msgs)} \ {0}}
           \cup {KiroHistory(msgs)[p][1] \cup KiroHistory(msgs)[p][2] : p \in DOMAIN KiroHistory(msgs)})
=============================================================================
