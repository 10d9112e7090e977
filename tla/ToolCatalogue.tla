---------------------------- MODULE ToolCatalogue ----------------------------
(* Which tools a model is offered in a run: those of the skills the agent has  *)
(* from the start or has activated, less what its access level blocks, what    *)
(* only a Solar room has a use for and what the caller does itself, plus the   *)
(* caller's own tools under a prefix of their own                              *)
(* (internal/service/chat_tools.go, skills.go, perk.go, openai_compatible.go). *)
(*                                                                             *)
(* A tool is its name.  Lists stay sequences: a provider refuses a request     *)
(* with a name twice, and what keeps a name from being there twice is part of  *)
(* the code.  Go visits a map in any order; the order of the skills is none    *)
(* that anything depends on.                                                   *)
EXTENDS Integers, Sequences, SequencesExt

-----------------------------------------------------------------------------
(* The skills.                                                               *)

\* skillRegistry: a skill is the list of its tools.
skillRegistry ==
    [chat          |-> <<"send_chat_message", "send_chat_message_batch", "no_reply">>,
     solar_network |-> <<"get_chat_message", "get_user_profile", "list_user_posts",
                         "get_post", "list_post_replies">>,
     memory        |-> <<"memory_search", "memory_save", "memory_forget">>,
     tasks         |-> <<"create_task", "list_tasks", "update_task", "delete_task">>,
     web_search    |-> <<"web_search">>]

Skills == DOMAIN skillRegistry

\* The skills that an ability is the whole gate of; the ability bears the name.
abilityGatedSkills == {"web_search"}

SkillAllowedForAgent(abilities, skill) ==
    skill \in abilityGatedSkills => skill \in abilities

\* The skills an access level blocks; a level without a tier blocks none.
BlockedSkills(tiers, level) == IF level \in DOMAIN tiers THEN tiers[level].blocked ELSE {}

IsSkillAllowed(blocked, skill) == skill \notin blocked

\* What an agent has without asking.
AutoLoadedSkills(abilities, blocked) ==
    {skill \in Skills :
        /\ IsSkillAllowed(blocked, skill)
        /\ \/ skill = "chat" /\ "chat" \in abilities
           \/ skill = "memory" /\ {"humanizer", "memory"} \cap abilities # {}
           \/ skill \in abilityGatedSkills /\ SkillAllowedForAgent(abilities, skill)}

\* Without dynamic skills an agent has every skill that is not kept from it.
StaticSkills(abilities, blocked) ==
    {skill \in Skills :
        /\ IsSkillAllowed(blocked, skill)
        /\ SkillAllowedForAgent(abilities, skill)
        /\ skill \in {"chat", "solar_network"} => "chat" \in abilities}

ToolsOf(skills) ==
    LET order == SetToSeq(skills)
    IN  FlattenSeq([i \in DOMAIN order |-> skillRegistry[order[i]]])

\* resolveSkillTools: names nobody knows, left from older versions, load nothing.
ResolveSkillTools(active) == ToolsOf(active \cap Skills)

-----------------------------------------------------------------------------
(* The list of a run.                                                        *)

Names(tools) == ToSet(tools)

\* Of tools of one name the first stays.
UniqueToolInfos(tools) ==
    FoldLeft(LAMBDA unique, tool : IF Contains(unique, tool) THEN unique ELSE Append(unique, tool),
             <<>>, tools)

\* buildToolInfos drops the blocked ones from the very set of active skills
\* that the run keeps.
ActiveAfterBuild(dynamic, active, blocked) ==
    IF dynamic THEN {skill \in active : IsSkillAllowed(blocked, skill)} ELSE active

BuildToolInfos(dynamic, abilities, active, blocked) ==
    UniqueToolInfos(
        (IF dynamic THEN <<"list_skills", "activate_skill">> ELSE <<>>)
        \o <<"sequentialthinking", "get_current_user_profile">>
        \o ToolsOf(IF dynamic THEN AutoLoadedSkills(abilities, blocked)
                              ELSE StaticSkills(abilities, blocked))
        \o (IF "chat" \in abilities THEN <<"end_engagement">> ELSE <<>>)
        \o (IF dynamic THEN ResolveSkillTools(ActiveAfterBuild(dynamic, active, blocked)) ELSE <<>>))

SolarOutbound == {"send_chat_message", "send_chat_message_batch", "no_reply", "end_engagement"}

FilterSolarOutboundTools(tools, solarBound) ==
    IF solarBound THEN tools ELSE SelectSeq(tools, LAMBDA tool : tool \notin SolarOutbound)

\* callerOverrides: blank names are none.
CallerOverrides(names) == names \ {""}

ApplyCallerOverrides(tools, overrides) == SelectSeq(tools, LAMBDA tool : tool \notin overrides)

\* Conversations can be named; stateless requests take BuildToolInfos as it is.
ConversationToolInfos(dynamic, abilities, active, blocked, solarBound, overrides) ==
    ApplyCallerOverrides(
        UniqueToolInfos(Append(
            FilterSolarOutboundTools(BuildToolInfos(dynamic, abilities, active, blocked), solarBound),
            "set_conversation_title")),
        overrides)

\* The stateless API has no access level.
CallerServerTools(dynamic, abilities, active, overrides) ==
    ApplyCallerOverrides(BuildToolInfos(dynamic, abilities, active, {}), overrides)

-----------------------------------------------------------------------------
(* The caller's own tools and skills.                                        *)

clientToolNamespace == "local_"

NamespaceClientTools(tools) == [i \in DOMAIN tools |-> clientToolNamespace \o tools[i]]

NamespaceClientSkills(names) == {clientToolNamespace \o name : name \in names \ {""}}

RejectToolNameCollisions(server, client) == Names(server) \cap Names(client) # {}

\* What a result that loads a capability changes: the server tools the caller
\* takes over go, its new ones come, and a name stays once.
LoadOverrides(loop, overrides) ==
    [loop EXCEPT !.overrides = @ \cup CallerOverrides(overrides),
                 !.tools     = ApplyCallerOverrides(@, loop.overrides \cup CallerOverrides(overrides))]

LoadExtraTools(loop, extra) ==
    IF extra = <<>> THEN loop
    ELSE [loop EXCEPT !.clientTools = UniqueToolInfos(@ \o NamespaceClientTools(extra))]

OfferedTools(loop) == loop.tools \o loop.clientTools

-----------------------------------------------------------------------------
(* Finding and activating skills.                                            *)

SkillFullyReplaced(skill, overrides) ==
    /\ overrides # {}
    /\ Names(skillRegistry[skill]) \subseteq overrides

\* Neither what the agent has, nor what the caller does itself, nor what its
\* level or abilities keep from it.
AvailableSkills(abilities, active, blocked, overrides) ==
    {skill \in Skills :
        /\ skill \notin AutoLoadedSkills(abilities, blocked) \cup active
        /\ ~SkillFullyReplaced(skill, overrides)
        /\ IsSkillAllowed(blocked, skill)
        /\ SkillAllowedForAgent(abilities, skill)}

\* An entry of the answer names the tool that loads it.
ListSkills(abilities, active, blocked, clientSkills, overrides) ==
    {[name |-> skill, with |-> "activate_skill"] :
        skill \in AvailableSkills(abilities, active, blocked, overrides)}
    \cup {[name |-> skill, with |-> clientToolNamespace \o "load_skill"] :
        skill \in NamespaceClientSkills(clientSkills) \ active}

\* The answer and the skills that are active then.  The access level is not
\* looked at here: BuildToolInfos drops a blocked skill right afterwards, and
\* the model has been told that it is there.
ActivateSkill(skill, active, abilities, clientSkills) ==
    CASE skill \notin Skills /\ skill \in NamespaceClientSkills(clientSkills) ->
            [answer |-> "runs on the caller", active |-> active]
      [] skill \notin Skills /\ skill \notin NamespaceClientSkills(clientSkills) ->
            [answer |-> "not found", active |-> active]
      [] skill \in Skills /\ ~SkillAllowedForAgent(abilities, skill) ->
            [answer |-> "not available", active |-> active]
      [] skill \in Skills /\ SkillAllowedForAgent(abilities, skill) ->
            [answer |-> IF skill \in active THEN "already active" ELSE "activated",
             active |-> active \cup {skill}]

\* activatedSkills and persistActivatedSkills: a conversation keeps its names.
ActivatedSkills(stored) == stored \ {""}
=============================================================================
