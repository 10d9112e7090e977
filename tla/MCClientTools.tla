--------------------------- MODULE MCClientTools ---------------------------
(* Small instances of ClientTools for TLC, and the tool catalogue compared   *)
(* with what it is for: every set of abilities, any level that blocks at     *)
(* most one skill, up to two active skills, and callers that do nothing, one *)
(* tool, a whole skill, or a tool nobody has.                                *)
EXTENDS ClientTools, ToolCatalogue, TLC

CONSTANTS r1, r2

Abilities == SUBSET {"chat", "memory", "humanizer", "web_search"}
Levels    == {{}} \cup {{skill} : skill \in Skills}
Actives   == {{}} \cup {{s, t} : s, t \in Skills} \cup {{"forgotten"}}
Callers   == {{}, {"web_search"}, {"get_post", "nothing"}, Names(skillRegistry.memory)}

NoneTwice(tools) == \A i, j \in DOMAIN tools : tools[i] = tools[j] => i = j

Conversation(dynamic, abilities, active, blocked, solarBound, overrides) ==
    ConversationToolInfos(dynamic, abilities, active, blocked, solarBound, overrides)

\* Providers reject duplicate tool names, whatever was loaded twice.
ASSUME EachToolOnce ==
    \A dynamic, solarBound \in BOOLEAN, a \in Abilities, s \in Actives, b \in Levels :
        NoneTwice(Conversation(dynamic, a, s, b, solarBound, {}))

\* A level that blocks a skill keeps each of its tools from the model, though
\* the conversation may have activated it before.
ASSUME BlockedSkillsStayOut ==
    \A dynamic, solarBound \in BOOLEAN, a \in Abilities, s \in Actives, b \in Levels :
        \A skill \in b :
            Names(Conversation(dynamic, a, s, b, solarBound, {})) \cap Names(skillRegistry[skill]) = {}

\* What only a Solar room has a use for is offered in no other conversation.
ASSUME OutboundStaysInSolar ==
    \A dynamic \in BOOLEAN, a \in Abilities, s \in Actives, b \in Levels :
        Names(Conversation(dynamic, a, s, b, FALSE, {})) \cap SolarOutbound = {}

\* "One tool per job": what the caller does itself is gone, and nothing else.
ASSUME OverridesTakeNoMore ==
    \A dynamic \in BOOLEAN, a \in Abilities, s \in Actives, o \in Callers :
        /\ Names(Conversation(dynamic, a, s, {}, TRUE, o))
              = Names(Conversation(dynamic, a, s, {}, TRUE, {})) \ o
        /\ Names(CallerServerTools(dynamic, a, s, o)) = Names(BuildToolInfos(dynamic, a, s, {})) \ o

\* What list_skills offers is not there yet, and is once it is activated: all of
\* its tools in a Solar room, and in others all but those of the chat skill.
ASSUME ListedSkillsDeliver ==
    \A solarBound \in BOOLEAN, a \in Abilities, s \in Actives, b \in Levels, o \in Callers :
        \A skill \in AvailableSkills(a, s, b, o) :
            LET then == ActivateSkill(skill, s, a, {})
                tools == Names(skillRegistry[skill]) \ o
            IN  /\ then.answer = "activated"
                /\ tools \cap Names(Conversation(TRUE, a, s, b, solarBound, o)) = {}
                /\ solarBound \/ skill # "chat" =>
                     tools \subseteq Names(Conversation(TRUE, a, then.active, b, solarBound, o))
                /\ tools # {}

\* Building the list again changes nothing, and an activation takes nothing away.
ASSUME CatalogueGrows ==
    \A a \in Abilities, s \in Actives, b \in Levels, skill \in Skills :
        LET kept == ActiveAfterBuild(TRUE, s, b)
            then == ActivateSkill(skill, kept, a, {}).active
        IN  /\ ActiveAfterBuild(TRUE, kept, b) = kept
            /\ BuildToolInfos(TRUE, a, kept, b) = BuildToolInfos(TRUE, a, s, b)
            /\ Names(BuildToolInfos(TRUE, a, kept, b)) \subseteq Names(BuildToolInfos(TRUE, a, then, b))

\* "A caller-owned tool must never shadow a server-owned one", though it bears
\* the same name, and however often it is loaded.
ASSUME CallersToolsApart ==
    \A a \in Abilities, s \in Actives, o, p \in Callers :
        LET names == <<"web_search", "get_post">>
            start == [tools |-> Conversation(TRUE, a, s, {}, TRUE, o), overrides |-> o,
                      clientTools |-> NamespaceClientTools(names)]
            once  == LoadExtraTools(LoadOverrides(start, p), Append(names, "load_skill"))
            twice == LoadExtraTools(LoadOverrides(once, p), names)
        IN  /\ NoneTwice(OfferedTools(start)) /\ NoneTwice(OfferedTools(once))
            /\ ~RejectToolNameCollisions(once.tools, once.clientTools)
            /\ twice = once
            /\ Names(once.tools) = Names(start.tools) \ p

\* A skill of the caller is listed with the caller's tool that loads it and
\* refused to the server's.
ASSUME CallersSkillsRefused ==
    \A a \in Abilities, s \in Actives :
        /\ [name |-> "local_tasks", with |-> "local_load_skill"]
              \in ListSkills(a, s, {}, {"tasks", ""}, {})
        /\ ActivateSkill("local_tasks", s, a, {"tasks"}).answer = "runs on the caller"
        /\ ActivateSkill("local_tasks", s, a, {}).answer = "not found"
=============================================================================
