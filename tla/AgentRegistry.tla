--------------------------- MODULE AgentRegistry ---------------------------
(***************************************************************************)
(* Who offers what: the skill index and its round-robin positions          *)
(* (taskstore.go: RegisterAgentCard, UnregisterAgent, FindAgentBySkill)    *)
(* and the older tool table (main.go: handleRegister, cleanupAgent), and   *)
(* the tool calls that look one up after the other (handleMCPToolsCall).   *)
(*                                                                         *)
(* Index and table are written one after the other under different locks.  *)
(* A connection may register again while it is serving, with another offer *)
(* or under another id, and an id may have several connections: an old one *)
(* cleans up while a new one registers.  AgentConnections has what is      *)
(* beneath: of the channels, only whether the store knows one is kept here.*)
(***************************************************************************)
EXTENDS Naturals, SequencesExt, FiniteSetsExt

CONSTANTS
    Agent,      \* agent ids (the empty one, which no cleanup takes out, is in AgentConnections)
    Conn,       \* connections; one that has cleaned up stands for the next to come
    Skill,      \* skill ids, legacy capabilities and tool names: one name space in lookups
    Offer,      \* what a registration may announce
    Caller,     \* goroutines that handle a tool call
    NoAgent

ASSUME AgentsAreFinite == IsFiniteSet(Agent)
ASSUME NoAgentIsNoOne == NoAgent \notin Agent
ASSUME OffersAreOfSkills ==
    Offer \subseteq [tools : SUBSET Skill, card : BOOLEAN,
                     skills : SUBSET Skill, legacyCaps : SUBSET Skill]

VARIABLES
    at,          \* where the connection's registration or cleanup stands
    ident,       \* its myAgentID
    offer,       \* the registration it carries out
    tools,       \* tool name -> agent id, under stateMu
    agentConns,  \* the agents whose outbound channel the store has
    agents,      \* the stored card, as what it lists
    skillsIndex, \* skill id -> list of agent ids; the empty list is an absent key
    skillRR,     \* skill id -> round-robin index, never deleted
    lookup,      \* per caller: the tool call it handles
    waited,      \* (history) picks of the skill since the agent was picked or listed anew
    left,        \* (history) ids that their connection gave up for another
    overtaken    \* (history) ids of a registration whose channel another connection removed

index == <<agents, skillsIndex, waited>>
vars  == <<at, ident, offer, tools, agentConns, index, skillRR, lookup, left, overtaken>>

Card   == [skills : SUBSET Skill, legacyCaps : SUBSET Skill]
NoOffer == [tools |-> {}, card |-> FALSE, skills |-> {}, legacyCaps |-> {}]
NoCard == [skills |-> {}, legacyCaps |-> {}]

\* A tool call that looks for an agent: its skill and where it looks next;
\* steady are (history) the agents that have had the skill ever since it began.
\* One that has found an agent is over: what is sent is in AgentConnections.
Lookup   == [skill : Skill, at : {"index", "tools", "missed"}, steady : SUBSET Agent]
NoLookup == [at |-> "idle"]

Init ==
    /\ at = [c \in Conn |-> "away"]
    /\ ident = [c \in Conn |-> NoAgent]
    /\ offer = [c \in Conn |-> NoOffer]
    /\ tools = [s \in Skill |-> NoAgent]
    /\ agentConns = {}
    /\ agents = [a \in Agent |-> NoCard]
    /\ skillsIndex = [s \in Skill |-> <<>>]
    /\ skillRR = [s \in Skill |-> 0]
    /\ lookup = [k \in Caller |-> NoLookup]
    /\ waited = [s \in Skill |-> [a \in Agent |-> 0]]
    /\ left = {}
    /\ overtaken = {}

Step(c, from, to) == at[c] \in from /\ at' = [at EXCEPT ![c] = to]

\* The list loses every entry of a, and gains one for each way c lists s.
Without(list, a) ==
    LET newList[i \in 0..Len(list)] ==
            IF i = 0 THEN <<>>
            ELSE IF list[i] = a THEN newList[i - 1] ELSE Append(newList[i - 1], list[i])
    IN  newList[Len(list)]
Entries(a, c, s) ==
    (IF s \in c.skills THEN <<a>> ELSE <<>>) \o (IF s \in c.legacyCaps THEN <<a>> ELSE <<>>)

Reindex(a, c) ==
    /\ agents' = [agents EXCEPT ![a] = c]
    /\ skillsIndex' = [s \in Skill |-> Without(skillsIndex[s], a) \o Entries(a, c, s)]
    /\ waited' = [s \in Skill |-> IF skillsIndex'[s] = skillsIndex[s]
                                  THEN waited[s] ELSE [b \in Agent |-> 0]]

-----------------------------------------------------------------------------
(* handleRegister.                                                          *)

\* Of the agents that have had a skill since a lookup of it began, remain(k)
\* still do.
StaySteady(remain(_)) ==
    lookup' = [k \in Caller |-> IF lookup[k] = NoLookup THEN NoLookup
                                ELSE [lookup[k] EXCEPT !.steady = @ \cap remain(lookup[k].skill)]]

\* What the card of offer o lists, if there is one; without a card the stored
\* one stays.
Lists(o, s) == o.card => s \in o.skills \cup o.legacyCaps

\* The id it had before is nobody's any more, and nobody cleans up after it.
TakeId(c, a) ==
    /\ ident' = [ident EXCEPT ![c] = a]
    /\ left' = (IF ident[c] = NoAgent THEN left ELSE left \cup {ident[c]}) \ {a}

\* Bug: the tools of the earlier registration are taken out first.
RegisterStateAnew(c, a, o) ==
    /\ Step(c, {"away", "serving"}, "conn")
    /\ TakeId(c, a)
    /\ offer' = [offer EXCEPT ![c] = o]
    /\ tools' = [s \in Skill |-> IF s \in o.tools THEN a
                                 ELSE IF tools[s] = a THEN NoAgent ELSE tools[s]]
    /\ StaySteady(LAMBDA s : IF s \in o.tools THEN {a}
                             ELSE IF Lists(o, s) THEN Agent ELSE Agent \ {a})
    /\ UNCHANGED <<agentConns, index, skillRR, overtaken>>

\* A tool registered by somebody else is theirs no more: it has changed hands.
RegisterState(c, a, o) ==
    /\ Step(c, {"away", "serving"}, "conn")
    /\ TakeId(c, a)
    /\ offer' = [offer EXCEPT ![c] = o]
    /\ tools' = [s \in Skill |-> IF s \in o.tools THEN a ELSE tools[s]]
    /\ StaySteady(LAMBDA s : IF s \in o.tools THEN {a}
                             ELSE IF Lists(o, s) THEN Agent ELSE Agent \ {a})
    /\ UNCHANGED <<agentConns, index, skillRR, overtaken>>

\* Bug: the channel is registered when the first message is read.
RegisterAgentConnLater(c) ==
    /\ Step(c, {"conn"}, "card")
    /\ UNCHANGED <<ident, offer, tools, agentConns, index, skillRR, lookup, left, overtaken>>

RegisterAgentConn(c) ==
    /\ Step(c, {"conn"}, "card")
    /\ agentConns' = agentConns \cup {ident[c]}
    /\ overtaken' = overtaken \ {ident[c]}
    /\ UNCHANGED <<ident, offer, tools, index, skillRR, lookup, left>>

CardOf(o) == [skills |-> o.skills, legacyCaps |-> o.legacyCaps]

\* Bug: the entries of an earlier card stay in the index.
RegisterAgentCardOnTop(c) ==
    /\ Step(c, {"card"}, "serving")
    /\ offer' = [offer EXCEPT ![c] = NoOffer]
    /\ IF offer[c].card
       THEN /\ agents' = [agents EXCEPT ![ident[c]] = CardOf(offer[c])]
            /\ skillsIndex' = [s \in Skill |->
                                   skillsIndex[s] \o Entries(ident[c], CardOf(offer[c]), s)]
            /\ UNCHANGED waited
       ELSE UNCHANGED index
    /\ UNCHANGED <<ident, tools, agentConns, skillRR, lookup, left, overtaken>>

RegisterAgentCard(c) ==
    /\ Step(c, {"card"}, "serving")
    /\ offer' = [offer EXCEPT ![c] = NoOffer]
    /\ IF offer[c].card THEN Reindex(ident[c], CardOf(offer[c])) ELSE UNCHANGED index
    /\ UNCHANGED <<ident, tools, agentConns, skillRR, lookup, left, overtaken>>

-----------------------------------------------------------------------------
(* cleanupAgent, under the id of the last registration.                     *)

\* Bug: the tools are left to UnregisterAgent, which has none.
CleanStateKeepsTools(c) ==
    /\ Step(c, {"serving"}, "leaving")
    /\ StaySteady(LAMBDA s : Agent \ {ident[c]})
    /\ left' = left \ {ident[c]}
    /\ UNCHANGED <<ident, offer, tools, agentConns, index, skillRR, overtaken>>

CleanState(c) ==
    /\ Step(c, {"serving"}, "leaving")
    /\ tools' = [s \in Skill |-> IF tools[s] = ident[c] THEN NoAgent ELSE tools[s]]
    /\ StaySteady(LAMBDA s : Agent \ {ident[c]})
    /\ left' = left \ {ident[c]}
    /\ UNCHANGED <<ident, offer, agentConns, index, skillRR, overtaken>>

\* Another connection that registers under the id is overtaken if its channel
\* is in and its card is not.
Overtakes(c) == \E d \in Conn \ {c} : ident[d] = ident[c] /\ at[d] = "card"

UnregisterAgent(c) ==
    /\ Step(c, {"leaving"}, "away")
    /\ ident' = [ident EXCEPT ![c] = NoAgent]
    /\ agentConns' = agentConns \ {ident[c]}
    /\ overtaken' = IF Overtakes(c) THEN overtaken \cup {ident[c]} ELSE overtaken \ {ident[c]}
    /\ Reindex(ident[c], NoCard)
    /\ UNCHANGED <<offer, tools, skillRR, lookup, left>>

-----------------------------------------------------------------------------
(* FindAgentBySkill.                                                        *)

\* A position past the end of a list that has become shorter starts over.
Position(s) == IF skillRR[s] >= Len(skillsIndex[s]) THEN 0 ELSE skillRR[s]

Picked(s) == skillsIndex[s][Position(s) + 1]

\* The list has moved past the agent it picked.
Picks(s, next) ==
    /\ skillRR' = [skillRR EXCEPT ![s] = next]
    /\ waited' = [waited EXCEPT ![s] = [a \in Agent |->
           IF a = Picked(s) \/ a \notin ToSet(skillsIndex[s]) THEN 0 ELSE @[a] + 1]]

\* Bug: the next position is not wrapped.
FindWithoutWrapping(s) == Picks(s, Position(s) + 1)

\* Bug: the position is left at the agent that was picked.
FindWithoutAdvancing(s) == Picks(s, Position(s))

FindAgentBySkill(s) == Picks(s, (Position(s) + 1) % Len(skillsIndex[s]))

-----------------------------------------------------------------------------
(* handleMCPToolsCall looks into the index first and, when it has nothing,   *)
(* into the tool table, under the other lock.                               *)

\* What c is about to do takes a off the list of s.
TakesOff(c, a, s) ==
    /\ ident[c] = a
    /\ \/ at[c] = "leaving"
       \/ at[c] \in {"conn", "card"} /\ ~Lists(offer[c], s)

\* The agents that have s, to stay.
Having(s) ==
    {a \in Agent : \/ tools[s] = a
                   \/ a \in ToSet(skillsIndex[s]) /\ \A c \in Conn : ~TakesOff(c, a, s)}

ReadCall(k, s) ==
    /\ lookup[k] = NoLookup
    /\ lookup' = [lookup EXCEPT ![k] = [skill |-> s, at |-> "index", steady |-> Having(s)]]
    /\ UNCHANGED <<at, ident, offer, tools, agentConns, index, skillRR, left, overtaken>>

LookIntoIndex(k) ==
    /\ lookup[k].at = "index"
    /\ LET s == lookup[k].skill
       IN  IF skillsIndex[s] # <<>>
           THEN /\ FindAgentBySkill(s)
                /\ lookup' = [lookup EXCEPT ![k] = NoLookup]
           ELSE /\ lookup' = [lookup EXCEPT ![k].at = "tools"]
                /\ UNCHANGED <<skillRR, waited>>
    /\ UNCHANGED <<at, ident, offer, tools, agentConns, agents, skillsIndex, left, overtaken>>

LookIntoTools(k) ==
    /\ lookup[k].at = "tools"
    /\ LET s == lookup[k].skill
       IN  lookup' = [lookup EXCEPT ![k] = IF tools[s] # NoAgent THEN NoLookup
                                           ELSE [@ EXCEPT !.at = "missed"]]
    /\ UNCHANGED <<at, ident, offer, tools, agentConns, index, skillRR, left, overtaken>>

\* "Tool not found".
RefuseCall(k) ==
    /\ lookup[k].at = "missed"
    /\ lookup' = [lookup EXCEPT ![k] = NoLookup]
    /\ UNCHANGED <<at, ident, offer, tools, agentConns, index, skillRR, left, overtaken>>

-----------------------------------------------------------------------------
Next ==
    \/ \E c \in Conn : \/ \E a \in Agent, o \in Offer : RegisterState(c, a, o)
                       \/ RegisterAgentConn(c) \/ RegisterAgentCard(c)
                       \/ CleanState(c) \/ UnregisterAgent(c)
    \/ \E k \in Caller : \/ \E s \in Skill : ReadCall(k, s)
                         \/ LookIntoIndex(k) \/ LookIntoTools(k) \/ RefuseCall(k)

Spec == Init /\ [][Next]_vars

-----------------------------------------------------------------------------
TypeOK ==
    /\ at \in [Conn -> {"away", "conn", "card", "serving", "leaving"}]
    /\ ident \in [Conn -> Agent \cup {NoAgent}]
    /\ \A c \in Conn : at[c] = "away" <=> ident[c] = NoAgent
    /\ offer \in [Conn -> [tools : SUBSET Skill, card : BOOLEAN,
                           skills : SUBSET Skill, legacyCaps : SUBSET Skill]]
    /\ tools \in [Skill -> Agent \cup {NoAgent}]
    /\ agentConns \subseteq Agent
    /\ agents \in [Agent -> Card]
    /\ skillsIndex \in [Skill -> Seq(Agent)]
    /\ skillRR \in [Skill -> {0} \cup 1..(2 * Cardinality(Agent) - 1)]
    /\ lookup \in [Caller -> Lookup \cup {NoLookup}]
    /\ waited \in [Skill -> [Agent -> Nat]]
    /\ left \subseteq Agent
    /\ overtaken \subseteq Agent

Times(list, a) == Cardinality({i \in DOMAIN list : list[i] = a})

Listed(a, s) == Times(skillsIndex[s], a)

Ways(c, s) == Cardinality({way \in {"skills", "legacyCaps"} : s \in c[way]})

\* The index says what the stored cards say, no more and no less, through any
\* number of registrations with other offers, departures and returns: an agent
\* is listed under a skill once for each way its card names it.
IndexIsExact ==
    \A a \in Agent, s \in Skill : Listed(a, s) = Ways(agents[a], s)

\* The tool table never names an agent whose cleanup was the last of it,
\* whatever it offered in earlier registrations and however many connections it
\* had: it names one that a connection is registered, or registering, under.
\* (Or was, before it registered under another id: nobody cleans up after that.)
ToolsNameThePresent ==
    \A s \in Skill :
        tools[s] \notin left \cup {NoAgent} =>
            \E c \in Conn : ident[c] = tools[s] /\ at[c] \in {"conn", "card", "serving"}

\* Nobody is passed over: while the list of a skill stands, each agent on it
\* is picked again before the list has been gone through once, wherever the
\* position was left by a longer list. (An agent that names the skill in both
\* lists of its card is on it twice and gets two turns to the others' one.)
EachGetsATurn ==
    \A s \in Skill : \A a \in ToSet(skillsIndex[s]) : waited[s][a] < Len(skillsIndex[s])

\* Whom the index gives a call to can be sent it: the index lists an agent only
\* while the store has its channel, through registrations and cleanups of the
\* same id that overlap.  There is one exception, and no other: an old
\* connection's UnregisterAgent between RegisterAgentConn and RegisterAgentCard
\* of a new one, which then offers what cannot be sent to it.
\* (The tool table names an agent a step earlier: a call in between is accepted
\* and its message dropped.)
ListedIsReachable ==
    \A s \in Skill : ToSet(skillsIndex[s]) \subseteq agentConns \cup overtaken

\* "Tool not found" is never said of a tool that some agent has had all the
\* while, in the index, in the table or on its way from one to the other by
\* registering again.  (A tool that changes hands in the table is lost to its
\* former owner, who does not count as having it any more.)
SteadyToolsAreFound ==
    \A k \in Caller : lookup[k].at = "missed" => lookup[k].steady = {}

-----------------------------------------------------------------------------
(* What makes these inductive.                                              *)

\* The channel is in before the card, unless the registration is overtaken.
CardComesLast ==
    \A c \in Conn : at[c] = "card" => ident[c] \in agentConns \cup overtaken

\* The picks until the position comes to the (0-based) place i.
Until(s, i) ==
    IF i >= Position(s) THEN i - Position(s) ELSE i + Len(skillsIndex[s]) - Position(s)

\* An agent on the list has a place there that the position comes to before
\* the list has been gone through once since the agent's last turn.
TurnsAreAhead ==
    \A s \in Skill : \A a \in ToSet(skillsIndex[s]) :
        \E i \in 0..(Len(skillsIndex[s]) - 1) :
            /\ skillsIndex[s][i + 1] = a
            /\ waited[s][a] + Until(s, i) < Len(skillsIndex[s])

\* Who counts as having a skill all the while has it; once the index has been
\* found empty, in the table.
SteadyHaveIt ==
    \A k \in Caller :
        LET l == lookup[k]
        IN  l # NoLookup =>
                /\ l.steady \subseteq Having(l.skill)
                /\ l.at = "tools" => \A a \in l.steady : tools[l.skill] = a

IInv ==
    /\ TypeOK /\ IndexIsExact /\ ToolsNameThePresent /\ ListedIsReachable
    /\ CardComesLast /\ TurnsAreAhead /\ SteadyHaveIt /\ SteadyToolsAreFound
=============================================================================
